---- MODULE Spec2Model ----
(***************************************************************************)
(* Playback queue of the flipdot driver (src/flipdot/driver/queue.py):     *)
(* ContentState (one content being played) and ContentQueue (current,      *)
(* queue, interrupted), driven by add_content, replace_if_same_id, update  *)
(* and clear, with the clock read by time.time() as the variable now.      *)
(* Time is counted in milliseconds, the unit of Frame.duration_ms.         *)
(* Poll client and error handler (src/flipdot/driver/client.py) and the    *)
(* driver loop's _poll_for_content and _render_frame (driver/main.py).     *)
(* Serial connection (src/flipdot/hardware.py) and push server             *)
(* (src/flipdot/server.py) with the driver's _handle_push_content.         *)
(***************************************************************************)
EXTENDS Integers, Sequences, FiniteSets

VARIABLES
    now,          \* value of time.time(), in ms
    current,      \* ContentQueue.current: a ContentState or None
    queue,        \* ContentQueue.queue: sequence of ContentState, head first
    interrupted,  \* ContentQueue.interrupted: stack of ContentState, top last
    last,         \* the last public call: its name, argument, result and log
    nadmit,       \* number of ContentState objects constructed so far
    client,       \* the driver's ContentClient
    error_handler, \* the driver's ErrorHandler
    polled,       \* the last poll: outcome of the request, result, rejection
    panel,        \* the matrix last set on the Panel, None before the first
    serial,       \* the driver's SerialConnection
    port,         \* the serial device as the operating system presents it
    wrote,        \* the last SerialConnection.write: its result, the path
                  \* taken, consecutive_failures when it was called
    server,       \* the push server: its auth configuration
    posted,       \* the last POST: the request, the status answered, the
                  \* number of calls of the callback
    fetching,     \* the driver thread is inside fetch_content's request
    running,      \* FlipDotDriver.running
    pc,           \* where the main thread is in start()
    serving,      \* PushServer.running
    stopping,     \* the steps of shutdown taken so far, in order
    lock,         \* ContentQueue._lock: its owner and how often it holds it
    pending       \* per thread, the queue operation it is inside, if any

qvars == <<now, current, queue, interrupted, last, nadmit>>
cvars == <<client, error_handler, polled, panel>>
svars == <<serial, port, wrote>>
hvars == <<server, posted>>
dvars == <<client, error_handler, polled, panel,
           serial, port, wrote, server, posted, fetching>>
lvars == <<running, pc, serving, stopping>>
tvars == <<running, pc, serving, stopping, lock, pending>>
vars == <<now, current, queue, interrupted, last, nadmit,
          client, error_handler, polled, panel,
          serial, port, wrote, server, posted, fetching,
          running, pc, serving, stopping, lock, pending>>

(***************************************************************************)
(* Bounds of the model: in each specification the clock stops at its       *)
(* ...Time and at most ...Admissions ContentState objects are constructed. *)
(***************************************************************************)
MaxTime == 2
MaxAdmissions == 3
PlayTime == 4
PlayAdmissions == 3
QueueTime == 2
QueueAdmissions == 5
FifoTime == 2
FifoAdmissions == 6
StackTime == 2
StackAdmissions == 4
BoundsTime == 2
BoundsAdmissions == 5
PollTime == 9001
MaxErrors == 1025

(***************************************************************************)
(* ContentQueue.MAX_QUEUED_ITEMS (50) and MAX_INTERRUPTED_ITEMS (10),      *)
(* scaled down so that both overflows are within reach of the bounds.      *)
(***************************************************************************)
MAX_QUEUED_ITEMS == 3
MAX_INTERRUPTED_ITEMS == 2

\* Python's None, for current, for update()'s result and for a call's argument
None == [none |-> TRUE]

(***************************************************************************)
(* models.py: Frame, PlaybackMode, Content.  duration_ms = 0 stands for    *)
(* both an absent and a zero duration (the code tests `not duration`);     *)
(* loop_count = 0 stands for an absent loop_count (a present one is >= 1). *)
(* data stands for the frame's bitmap: it tells the frames apart.  The     *)
(* frames are of the size of the display unless resized.                   *)
(***************************************************************************)
\* Panel.dimensions of the default module_layout: two modules of 28 x 7
display_width == 28
display_height == 14

Frame(cid, i, d) ==
    [data |-> <<cid, i>>, duration_ms |-> d,
     width |-> display_width, height |-> display_height]

PlaybackMode(loop, loop_count, priority, interruptible) ==
    [loop |-> loop, loop_count |-> loop_count,
     priority |-> priority, interruptible |-> interruptible]

Content(cid, durations, playback) ==
    [content_id |-> cid,
     frames |-> [i \in 1..Len(durations) |-> Frame(cid, i - 1, durations[i])],
     playback |-> playback]

(***************************************************************************)
(* ContentState.__init__ at time t.  frame_index counts from 0 as in the   *)
(* code; paused_at = 0 stands for None (both are false in `if paused_at`). *)
(* seq, via and shown are history fields, read by no operation: the        *)
(* number of the construction, the operation that constructed the state,   *)
(* and the time the frame at frame_index has been on display.              *)
(***************************************************************************)
ContentState(content, t, n, op) ==
    [content |-> content,
     frame_index |-> 0,
     loop_count |-> 0,
     frame_start_time |-> t,
     paused |-> FALSE,
     paused_at |-> 0,
     time_paused |-> 0,
     seq |-> n,
     via |-> op,
     shown |-> 0]

\* ContentState.current_frame
current_frame(s) == s.content.frames[s.frame_index + 1]

\* ContentState.is_complete
is_complete(s) ==
    IF s.paused THEN FALSE
    ELSE IF s.frame_index >= Len(s.content.frames) - 1
         THEN IF ~s.content.playback.loop THEN TRUE
              ELSE s.content.playback.loop_count # 0
                   /\ s.loop_count >= s.content.playback.loop_count
         ELSE FALSE

\* elapsed_ms of ContentState.advance_frame
elapsed_ms(s, t) == t - s.frame_start_time - s.time_paused

\* ContentState.advance_frame: TRUE iff it advances at time t
advances(s, t) ==
    /\ ~s.paused
    /\ current_frame(s).duration_ms # 0
    /\ elapsed_ms(s, t) >= current_frame(s).duration_ms

\* ContentState.advance_frame: the state it leaves behind at time t
advance_frame(s, t) ==
    IF ~advances(s, t) THEN s
    ELSE LET n == s.frame_index + 1
             wrapped == n >= Len(s.content.frames)
         IN  [s EXCEPT
                !.frame_index = IF wrapped
                                THEN IF s.content.playback.loop THEN 0
                                     ELSE Len(s.content.frames) - 1
                                ELSE n,
                !.loop_count = IF wrapped /\ s.content.playback.loop
                               THEN s.loop_count + 1 ELSE s.loop_count,
                !.frame_start_time = t,
                !.time_paused = 0,
                !.shown = 0]

\* pause() that stamps paused_at but leaves the paused flag unset
pause_unflagged(s, t) ==
    IF ~s.paused THEN [s EXCEPT !.paused_at = t] ELSE s

\* ContentState.pause
pause(s, t) ==
    IF ~s.paused THEN [s EXCEPT !.paused = TRUE, !.paused_at = t] ELSE s

\* resume() that also calls reset(), restarting the content
resume_restarts(s, t) ==
    IF s.paused /\ s.paused_at # 0
    THEN [s EXCEPT !.time_paused = 0, !.paused = FALSE, !.paused_at = 0,
                   !.frame_index = 0, !.loop_count = 0,
                   !.frame_start_time = t]
    ELSE s

\* resume() that credits the pause but leaves the paused flag set
resume_still_paused(s, t) ==
    IF s.paused /\ s.paused_at # 0
    THEN [s EXCEPT !.time_paused = s.time_paused + (t - s.paused_at),
                   !.paused_at = 0]
    ELSE s

\* ContentState.resume
resume(s, t) ==
    IF s.paused /\ s.paused_at # 0
    THEN [s EXCEPT !.time_paused = s.time_paused + (t - s.paused_at),
                   !.paused = FALSE, !.paused_at = 0]
    ELSE s

(***************************************************************************)
(* ContentQueue._add_to_queue: the insertion index, then the insertion,    *)
(* then the drop of the tail when the queue exceeds MAX_QUEUED_ITEMS.      *)
(***************************************************************************)
RECURSIVE insert_idx_from(_, _, _)
insert_idx_from(q, priority, i) ==
    IF i > Len(q) THEN i - 1
    ELSE IF priority <= q[i].content.playback.priority
         THEN insert_idx_from(q, priority, i + 1)
         ELSE i - 1

insert_idx(q, priority) == insert_idx_from(q, priority, 1)

insert_at(q, idx, state) ==
    SubSeq(q, 1, idx) \o <<state>> \o SubSeq(q, idx + 1, Len(q))

\* the queue bound enforced with pop(0): drops the head, not the tail
enforce_queue_bound_head(q) ==
    IF Len(q) > MAX_QUEUED_ITEMS THEN Tail(q) ELSE q

enforce_queue_bound(q) ==
    IF Len(q) > MAX_QUEUED_ITEMS THEN SubSeq(q, 1, Len(q) - 1) ELSE q

add_to_queue(q, state) ==
    enforce_queue_bound(
        insert_at(q, insert_idx(q, state.content.playback.priority), state))

\* the interrupted stack left without a bound
enforce_interrupted_bound_never(st) == st

\* the bound on the interrupted stack enforced with pop(): drops the top
enforce_interrupted_bound_top(st) ==
    IF Len(st) > MAX_INTERRUPTED_ITEMS THEN SubSeq(st, 1, Len(st) - 1) ELSE st

\* add_content: the bound on the interrupted stack (pop(0) drops the bottom)
enforce_interrupted_bound(st) ==
    IF Len(st) > MAX_INTERRUPTED_ITEMS THEN Tail(st) ELSE st

Call(op, arg, ret, log) == [op |-> op, arg |-> arg, ret |-> ret, log |-> log]

(***************************************************************************)
(* config.py: ClientBackoff, the limits of the poll client, with their     *)
(* defaults.                                                               *)
(***************************************************************************)
ClientBackoff(initial, multiplier, max) ==
    [initial_backoff_ms |-> initial, backoff_multiplier |-> multiplier,
     max_backoff_ms |-> max]

DEFAULT_LIMITS == ClientBackoff(1000, 2, 300000)

(***************************************************************************)
(* ContentClient.__init__ and ErrorHandler.__init__.  last_poll_time = 0   *)
(* stands for None (the clock starts at 1).                                *)
(***************************************************************************)
ContentClient(limits) ==
    [limits |-> limits,
     last_poll_time |-> 0,
     poll_interval_ms |-> 30000,
     consecutive_errors |-> 0]

ErrorFallback == {"keep_last", "blank", "error_message"}

ErrorHandler(fallback) ==
    [fallback |-> fallback, last_successful_content |-> None]

\* no poll yet
NotPolled ==
    [outcome |-> "none", ret |-> None, fallback |-> None,
     rejected |-> FALSE, started |-> 0]

(***************************************************************************)
(* config.py: SerialConfig, and SerialConnection.__init__ with a device    *)
(* path configured.  handle stands for _serial: "open" for a Serial        *)
(* object, "none" for None.  The operating system presents the device as   *)
(* "ready" (it opens and takes every byte), "busy" (it opens and takes     *)
(* only a part of what is written) or "absent" (opening it or writing to   *)
(* it raises OSError / SerialException).                                   *)
(***************************************************************************)
SerialConfig(max_failures, initial, max) ==
    [max_consecutive_failures |-> max_failures,
     initial_reconnect_backoff_ms |-> initial,
     max_reconnect_backoff_ms |-> max]

DEFAULT_SERIAL == SerialConfig(10, 1000, 60000)

PortStates == {"ready", "busy", "absent"}

\* SerialConnection._connect: serial.Serial(...) succeeds or raises
connect(s, p) ==
    IF p # "absent"
    THEN [s EXCEPT !.handle = "open",
                   !.consecutive_failures = 0,
                   !.reconnect_backoff_ms =
                       s.limits.initial_reconnect_backoff_ms]
    ELSE [s EXCEPT !.handle = "none"]

SerialConnection(dev_mode, limits, p) ==
    LET self == [dev_mode |-> dev_mode, limits |-> limits,
                 handle |-> "none", consecutive_failures |-> 0,
                 last_reconnect_attempt |-> 0,
                 reconnect_backoff_ms |->
                     limits.initial_reconnect_backoff_ms]
    IN  IF dev_mode THEN self ELSE connect(self, p)

\* no write yet
NotWritten == [ret |-> TRUE, how |-> "none", failures_before |-> 0]

(***************************************************************************)
(* models.py: AuthConfig.  An optional string is the empty tuple for None  *)
(* or the one-element tuple of its value.                                  *)
(***************************************************************************)
AuthConfig(type, token, key) ==
    [type |-> type, token |-> token, key |-> key, header_name |-> "X-API-Key"]

\* no POST yet: the last request, the status answered, the number of calls
\* of the callback it caused, the parity of the number of POSTs answered
NotPosted == [request |-> None, status |-> 0, calls |-> 0, parity |-> 0]

\* PushServer.__init__ configures the handler class
PushServer(auth) == [auth_config |-> auth]

InitSerial(dev_mode, limits) ==
    /\ serial = SerialConnection(dev_mode, limits, port)
    /\ wrote = NotWritten

InitServer(auth) ==
    /\ server = PushServer(auth)
    /\ posted = NotPosted

\* the client, the error handler and the panel
InitClient(limits, fallback) ==
    /\ client = ContentClient(limits)
    /\ error_handler = ErrorHandler(fallback)
    /\ polled = NotPolled
    /\ panel = None
    /\ fetching = FALSE

\* FlipDotDriver.__init__ with the device plugged in and an API key set
InitDriver(limits, fallback) ==
    /\ InitClient(limits, fallback)
    /\ port = "ready"
    /\ InitSerial(FALSE, DEFAULT_SERIAL)
    /\ InitServer(AuthConfig("api_key", <<>>, <<"key">>))

\* ContentQueue.__init__
InitQueue ==
    /\ now = 1
    /\ current = None
    /\ queue = <<>>
    /\ interrupted = <<>>
    /\ last = Call("init", None, None, "none")
    /\ nadmit = 0

Threads == {"loop", "push"}

\* threading.RLock(): nobody holds it
Unlocked == [owner |-> "none", count |-> 0]

\* no thread is inside an operation of the queue
NoCalls == [t \in Threads |-> None]

\* the driver once start() has started the push server and entered the
\* loop; the specifications of single parts leave it there
Started ==
    /\ running = TRUE
    /\ pc = "poll"
    /\ serving = TRUE
    /\ stopping = <<>>
    /\ lock = Unlocked
    /\ pending = NoCalls

Init == InitQueue /\ InitDriver(DEFAULT_LIMITS, "keep_last") /\ Started

(***************************************************************************)
(* ContentQueue.add_content(content)                                       *)
(***************************************************************************)
add_content(content) ==
    /\ nadmit' = nadmit + 1
    /\ UNCHANGED now
    /\ LET new_state == ContentState(content, now, nadmit + 1, "add_content")
           priority == content.playback.priority
       IN  IF current = None
           THEN /\ current' = new_state
                /\ UNCHANGED <<queue, interrupted>>
                /\ last' = Call("add_content", content, None, "started")
           ELSE IF priority > current.content.playback.priority
                THEN IF current.content.playback.interruptible
                     THEN /\ interrupted' = enforce_interrupted_bound(
                                 Append(interrupted, pause(current, now)))
                          /\ current' = new_state
                          /\ UNCHANGED queue
                          /\ last' = Call("add_content", content, None,
                                          "interrupting")
                     ELSE /\ queue' = add_to_queue(queue, new_state)
                          /\ UNCHANGED <<current, interrupted>>
                          /\ last' = Call("add_content", content, None,
                                          "cannot interrupt")
                ELSE /\ queue' = add_to_queue(queue, new_state)
                     /\ UNCHANGED <<current, interrupted>>
                     /\ last' = Call("add_content", content, None, "queued")

(***************************************************************************)
(* ContentQueue.update(), the branch taken once current is complete: what  *)
(* becomes current, what is left of queue and interrupted, and the log.    *)
(***************************************************************************)
\* the branch with interrupted.pop(0): resumes the oldest interrupted content
next_content_oldest(st, q, t) ==
    IF st # <<>>
    THEN [current |-> resume(Head(st), t),
          interrupted |-> Tail(st),
          queue |-> q,
          log |-> "resumed"]
    ELSE IF q # <<>>
         THEN [current |-> Head(q), interrupted |-> st, queue |-> Tail(q),
               log |-> "started next"]
         ELSE [current |-> None, interrupted |-> st, queue |-> q,
               log |-> "queue is empty"]

next_content(st, q, t) ==
    IF st # <<>>
    THEN [current |-> resume(st[Len(st)], t),
          interrupted |-> SubSeq(st, 1, Len(st) - 1),
          queue |-> q,
          log |-> "resumed"]
    ELSE IF q # <<>>
         THEN [current |-> Head(q), interrupted |-> st, queue |-> Tail(q),
               log |-> "started next"]
         ELSE [current |-> None, interrupted |-> st, queue |-> q,
               log |-> "queue is empty"]

(***************************************************************************)
(* ContentQueue.update()                                                   *)
(***************************************************************************)
update ==
    /\ UNCHANGED <<now, nadmit>>
    /\ IF current = None
       THEN /\ UNCHANGED <<current, queue, interrupted>>
            /\ last' = Call("update", None, None, "idle")
       ELSE LET advanced == advance_frame(current, now)
                after == next_content(interrupted, queue, now)
            IN  IF is_complete(advanced)
                THEN /\ current' = after.current
                     /\ interrupted' = after.interrupted
                     /\ queue' = after.queue
                     /\ last' = Call("update", None,
                                     IF after.current = None THEN None
                                     ELSE current_frame(after.current),
                                     after.log)
                ELSE /\ current' = advanced
                     /\ UNCHANGED <<queue, interrupted>>
                     /\ last' = Call("update", None, current_frame(advanced),
                                     "playing")

\* clear() that forgets current but leaves queue and interrupted as they are
clear_current ==
    /\ current' = None
    /\ last' = Call("clear", None, None, "clearing")
    /\ UNCHANGED <<now, nadmit, queue, interrupted>>

(***************************************************************************)
(* ContentQueue.clear()                                                    *)
(***************************************************************************)
clear ==
    /\ current' = None
    /\ queue' = <<>>
    /\ interrupted' = <<>>
    /\ last' = Call("clear", None, None, "clearing")
    /\ UNCHANGED <<now, nadmit>>

(***************************************************************************)
(* ContentQueue.replace_if_same_id(content)                                *)
(***************************************************************************)
\* the search that keeps going and stops on the last state with the id
last_with_id(seq, cid) ==
    LET hits == {i \in 1..Len(seq) : seq[i].content.content_id = cid}
    IN  IF hits = {} THEN 0 ELSE CHOOSE i \in hits : \A j \in hits : i >= j

\* the index of the first state of seq with content_id cid, 0 if there is none
first_with_id(seq, cid) ==
    LET hits == {i \in 1..Len(seq) : seq[i].content.content_id = cid}
    IN  IF hits = {} THEN 0 ELSE CHOOSE i \in hits : \A j \in hits : i <= j

\* the replacement of current that always starts over at frame 0
replaced_current_restart(old, fresh) == fresh

\* the replacement of current that keeps the old frame_index in any case
replaced_current_unchecked(old, fresh) ==
    [fresh EXCEPT !.frame_index = old.frame_index]

\* the state that replaces current: fresh, at the old frame_index if it exists
replaced_current(old, fresh) ==
    IF old.frame_index < Len(fresh.content.frames)
    THEN [fresh EXCEPT !.frame_index = old.frame_index]
    ELSE fresh

replace_if_same_id(content) ==
    /\ UNCHANGED now
    /\ LET fresh == ContentState(content, now, nadmit + 1, "replace_if_same_id")
           qi == first_with_id(queue, content.content_id)
           ii == first_with_id(interrupted, content.content_id)
       IN  IF current # None /\ current.content.content_id = content.content_id
           THEN /\ current' = replaced_current(current, fresh)
                /\ nadmit' = nadmit + 1
                /\ UNCHANGED <<queue, interrupted>>
                /\ last' = Call("replace_if_same_id", content, TRUE,
                                "replacing current")
           ELSE IF qi # 0
                THEN /\ queue' = [queue EXCEPT ![qi] = fresh]
                     /\ nadmit' = nadmit + 1
                     /\ UNCHANGED <<current, interrupted>>
                     /\ last' = Call("replace_if_same_id", content, TRUE,
                                     "replacing queued")
                ELSE IF ii # 0
                     THEN /\ interrupted' = [interrupted EXCEPT ![ii] = fresh]
                          /\ nadmit' = nadmit + 1
                          /\ UNCHANGED <<current, queue>>
                          /\ last' = Call("replace_if_same_id", content, TRUE,
                                          "replacing interrupted")
                     ELSE /\ UNCHANGED <<current, queue, interrupted, nadmit>>
                          /\ last' = Call("replace_if_same_id", content, FALSE,
                                          "not found")

(***************************************************************************)
(* The clock: one millisecond passes between two calls.  The frame of the  *)
(* content that is current has been on display for that millisecond.       *)
(***************************************************************************)
Tick ==
    /\ now' = now + 1
    /\ current' = IF current = None THEN None
                  ELSE [current EXCEPT !.shown = current.shown + 1]
    /\ UNCHANGED <<queue, interrupted, last, nadmit>>

(***************************************************************************)
(* models.py: ContentResponse and Content.validate_display_dimensions.     *)
(***************************************************************************)
ContentResponse(status, content, poll_interval_ms) ==
    [status |-> status, content |-> content,
     poll_interval_ms |-> poll_interval_ms]

\* TRUE iff validate_display_dimensions does not raise
validate_display_dimensions(content, width, height) ==
    /\ content.frames[1].width = width
    /\ content.frames[1].height = height

(***************************************************************************)
(* ContentClient._get_effective_poll_interval.  The result is a value or   *)
(* the OverflowError that the float power multiplier ** n raises: for the  *)
(* multiplier 2.0, from n = 1024 on.  The capped backoff                   *)
(* min(initial * multiplier ** n, max) is computed without the power.      *)
(***************************************************************************)
FLOAT_MAX_EXP == 1024

Returns(v) == [raised |-> FALSE, value |-> v]
Raises == [raised |-> TRUE, value |-> 0]

Min(a, b) == IF a <= b THEN a ELSE b
Max(a, b) == IF a >= b THEN a ELSE b

RECURSIVE capped_backoff(_, _, _, _)
capped_backoff(b, multiplier, n, max) ==
    IF n = 0 \/ b >= max THEN Min(b, max)
    ELSE capped_backoff(b * multiplier, multiplier, n - 1, max)

\* multiplier ** n raises OverflowError
power_overflows(n) == n >= FLOAT_MAX_EXP

get_effective_poll_interval(c) ==
    IF c.consecutive_errors = 0 THEN Returns(c.poll_interval_ms)
    ELSE IF power_overflows(c.consecutive_errors - 1) THEN Raises
    ELSE Returns(Max(c.poll_interval_ms,
                     capped_backoff(c.limits.initial_backoff_ms,
                                    c.limits.backoff_multiplier,
                                    c.consecutive_errors - 1,
                                    c.limits.max_backoff_ms)))

\* ContentClient.should_poll at time t: FALSE also stands for the error
\* raised by _get_effective_poll_interval, after which no poll is made
should_poll(c, t) ==
    IF c.last_poll_time = 0 THEN TRUE
    ELSE LET effective_interval == get_effective_poll_interval(c)
         IN  /\ ~effective_interval.raised
             /\ t - c.last_poll_time >= effective_interval.value

(***************************************************************************)
(* ContentClient.fetch_content at time t.  The outcome of the request is   *)
(* a response that validates or one of the exceptions the code catches:    *)
(* HTTPError (non-2xx), URLError (transport), JSONDecodeError, and any     *)
(* other Exception (a body that fails validation, a timeout).              *)
(***************************************************************************)
FetchErrors == {"HTTPError", "URLError", "JSONDecodeError", "Exception"}

Fetched(response) == [kind |-> "ok", response |-> response]
Failed(kind) == [kind |-> kind, response |-> None]

\* the stamp that is never set
stamp_never(c, t) == c

\* the stamp before the request: self.last_poll_time = time.time()
stamp(c, t) == [c EXCEPT !.last_poll_time = t]

\* the accounting when the request has returned or raised
settle(c, outcome) ==
    IF outcome.kind = "ok"
    THEN [c EXCEPT !.poll_interval_ms = outcome.response.poll_interval_ms,
                   !.consecutive_errors = 0]
    ELSE [c EXCEPT !.consecutive_errors = c.consecutive_errors + 1]

\* the client after fetch_content
fetch_content(c, t, outcome) == settle(stamp(c, t), outcome)

\* ContentClient.reset_poll_timer at time t
reset_poll_timer(c, t) == [c EXCEPT !.last_poll_time = t]

\* ContentClient.get_next_poll_delay_ms at time t: a value, or the error
\* of _get_effective_poll_interval
get_next_poll_delay_ms(c, t) ==
    IF c.last_poll_time = 0 THEN Returns(0)
    ELSE LET effective_interval == get_effective_poll_interval(c)
         IN  IF effective_interval.raised THEN Raises
             ELSE Returns(Max(0, effective_interval.value
                                    - (t - c.last_poll_time)))

\* what fetch_content returns
fetch_content_result(outcome) ==
    IF outcome.kind = "ok" THEN outcome.response ELSE None

(***************************************************************************)
(* ErrorHandler.set_last_successful and get_fallback_response.             *)
(***************************************************************************)
set_last_successful(h, response) ==
    IF response.content # None
    THEN [h EXCEPT !.last_successful_content = response]
    ELSE h

\* a handler that blanks the display whatever the policy
get_fallback_response_blank(h) == ContentResponse("clear", None, 30000)

get_fallback_response(h) ==
    IF h.fallback = "keep_last"
    THEN h.last_successful_content
    ELSE IF h.fallback = "blank"
         THEN ContentResponse("clear", None, 30000)
         ELSE ContentResponse("clear", None, 10000)

(***************************************************************************)
(* SerialConnection._should_attempt_reconnect, _try_reconnect and write    *)
(* at time t, the device being in state p.  last_reconnect_attempt = 0     *)
(* is the 0.0 of __init__: time.time() counts from the epoch, so the time  *)
(* elapsed since 0.0 exceeds every backoff.                                *)
(***************************************************************************)
should_attempt_reconnect(s, t) ==
    \/ s.last_reconnect_attempt = 0
    \/ t - s.last_reconnect_attempt >= s.reconnect_backoff_ms

\* a failed reconnection that leaves the backoff as it is
backoff_kept(s) == s

\* the exponential backoff of a failed reconnection
backoff_doubled(s) ==
    [s EXCEPT !.reconnect_backoff_ms =
         Min(s.reconnect_backoff_ms * 2, s.limits.max_reconnect_backoff_ms)]

\* the connection after _try_reconnect, which returns TRUE iff the handle
\* is then open
try_reconnect(s, p, t) ==
    IF ~should_attempt_reconnect(s, t) THEN s
    ELSE LET attempt == connect([s EXCEPT !.last_reconnect_attempt = t], p)
         IN  IF attempt.handle = "open" THEN attempt
             ELSE backoff_doubled(attempt)

Written(s, ret, how) == [serial |-> s, ret |-> ret, how |-> how]

failed(s) == [s EXCEPT !.consecutive_failures = s.consecutive_failures + 1]

\* self._serial.write(data) on the open handle and what follows it
write_open(s, p) ==
    IF p = "ready"
    THEN Written([s EXCEPT !.consecutive_failures = 0], TRUE, "ok")
    ELSE IF p = "busy"
         THEN Written(failed(s), FALSE, "partial")
         ELSE Written([failed(s) EXCEPT !.handle = "none"], FALSE, "raised")

\* a writer that stops reconnecting at max_consecutive_failures
reconnect_abandoned(s, p, t) ==
    IF s.consecutive_failures >= s.limits.max_consecutive_failures THEN s
    ELSE try_reconnect(s, p, t)

\* the reconnection write() attempts when it has no handle
reconnect(s, p, t) == try_reconnect(s, p, t)

\* SerialConnection.write: the connection after, the result, the path taken
write(s, p, t) ==
    IF s.dev_mode THEN Written(s, TRUE, "dev")
    ELSE IF s.handle = "none"
         THEN LET r == reconnect(s, p, t)
              IN  IF r.handle = "none"
                  THEN Written(failed(r), FALSE,
                               IF should_attempt_reconnect(s, t)
                               THEN "unreachable" ELSE "deferred")
                  ELSE write_open(r, p)
         ELSE write_open(s, p)

\* self.serial.write(serial_data) at time t
serial_write_at(t) ==
    LET w == write(serial, port, t)
    IN  /\ serial' = w.serial
        /\ wrote' = [ret |-> w.ret, how |-> w.how,
                     failures_before |-> serial.consecutive_failures]
        /\ UNCHANGED port

\* self.serial.write(serial_data) by the driver
serial_write == serial_write_at(now)

(***************************************************************************)
(* FlipDotDriver._poll_for_content, when the poll is due.  An updated      *)
(* content that fits the display replaces the state of the same id or is   *)
(* added; a clear response clears the queue and blanks the panel.          *)
(***************************************************************************)
\* _clear_display: the matrix of zeros
blank == [matrix |-> <<"blank", 0>>]

\* replace_if_same_id(content) would find a state to replace
holds_id(content) ==
    \/ current # None /\ current.content.content_id = content.content_id
    \/ first_with_id(queue, content.content_id) # 0
    \/ first_with_id(interrupted, content.content_id) # 0

\* the record of a poll: the outcome of the request, what fetch_content
\* returned, the fallback response taken in its place (None if none was),
\* whether the content was rejected for its size, when the request started
Polled(outcome, rejected, started) ==
    [outcome |-> outcome.kind, ret |-> fetch_content_result(outcome),
     fallback |-> IF outcome.kind = "ok" THEN None
                  ELSE get_fallback_response(error_handler),
     rejected |-> rejected, started |-> started]

\* _poll_for_content from the return of fetch_content on, the request
\* having started at time started
handle_response(outcome, started) ==
    LET fetched == fetch_content_result(outcome)
        response == IF fetched = None
                    THEN get_fallback_response(error_handler)
                    ELSE fetched
        fits == validate_display_dimensions(
                    response.content, display_width, display_height)
    IN  IF response = None
        THEN /\ polled' = Polled(outcome, FALSE, started)
             /\ UNCHANGED <<qvars, error_handler, panel, svars>>
        ELSE /\ error_handler' = set_last_successful(error_handler, response)
             /\ IF response.status = "updated" /\ response.content # None
                THEN /\ polled' = Polled(outcome, ~fits, started)
                     /\ UNCHANGED <<panel, svars>>
                     /\ IF ~fits THEN UNCHANGED qvars
                        ELSE IF holds_id(response.content)
                             THEN replace_if_same_id(response.content)
                             ELSE add_content(response.content)
                ELSE /\ polled' = Polled(outcome, FALSE, started)
                     /\ IF response.status = "clear"
                        THEN clear /\ panel' = blank /\ serial_write
                        ELSE UNCHANGED <<qvars, panel, svars>>

poll_for_content(outcome) ==
    /\ ~fetching
    /\ should_poll(client, now)
    /\ client' = fetch_content(client, now, outcome)
    /\ handle_response(outcome, now)
    /\ UNCHANGED <<hvars, fetching>>

(***************************************************************************)
(* _poll_for_content in two steps, the request of fetch_content taking     *)
(* time: begin_fetch up to the request, end_fetch from its outcome on.     *)
(***************************************************************************)
begin_fetch ==
    /\ ~fetching
    /\ should_poll(client, now)
    /\ client' = stamp(client, now)
    /\ polled' = [polled EXCEPT !.started = now]
    /\ fetching' = TRUE
    /\ UNCHANGED <<qvars, error_handler, panel, svars, hvars>>

end_fetch(outcome) ==
    /\ fetching
    /\ client' = settle(client, outcome)
    /\ fetching' = FALSE
    /\ handle_response(outcome, polled.started)
    /\ UNCHANGED hvars

(***************************************************************************)
(* FlipDotDriver._render_frame: the frame update() returns is set on the   *)
(* panel and written.                                                      *)
(***************************************************************************)
render_frame ==
    /\ ~fetching
    /\ update
    /\ IF last'.ret = None
       THEN UNCHANGED <<panel, svars>>
       ELSE panel' = [matrix |-> last'.ret.data] /\ serial_write
    /\ UNCHANGED <<client, error_handler, polled, hvars, fetching>>

(***************************************************************************)
(* FlipDotDriver._handle_push_content, the callback of the push server.    *)
(***************************************************************************)
\* a check of the size that lets every content pass
validate_always(content, width, height) == TRUE

\* the check of the size made on a pushed content
validate_pushed(content, width, height) ==
    validate_display_dimensions(content, width, height)

handle_push_content(content) ==
    IF ~validate_pushed(content, display_width, display_height)
    THEN UNCHANGED <<qvars, client>>
    ELSE /\ add_content(content)
         /\ client' = reset_poll_timer(client, now)

(***************************************************************************)
(* server.py: PushRequestHandler._authenticate and do_POST.  A request is  *)
(* its Authorization header and its X-API-Key header (the empty tuple if   *)
(* absent, else the one-element tuple of the value; the value of an        *)
(* Authorization header is the pair of its scheme and its credential),     *)
(* its Content-Length ("none": absent or 0, "fits", "oversize": above      *)
(* max_request_size, "malformed": not an integer) and its body: not JSON,  *)
(* JSON that Content.model_validate rejects, or a Content.                 *)
(***************************************************************************)
Request(authorization, api_key, content_length, body, content) ==
    [authorization |-> authorization, api_key |-> api_key,
     content_length |-> content_length, body |-> body, content |-> content]

\* str(x) of an optional string
str(x) == IF x = <<>> THEN "None" ELSE x[1]

\* headers.get(name, "") of a header given as an optional string
header_or_empty(h) == IF h = <<>> THEN <<"">> ELSE h

authenticate(auth, request) ==
    IF auth.type = "bearer"
    THEN request.authorization = <<"Bearer", str(auth.token)>>
    ELSE IF auth.type = "api_key"
         THEN header_or_empty(request.api_key) = auth.key
         ELSE FALSE

\* the answer of do_POST and whether it calls the callback
Answer(status, calls) == [status |-> status, calls |-> calls]

answer(auth, request) ==
    IF ~authenticate(auth, request) THEN Answer(401, 0)
    ELSE IF request.content_length = "malformed" THEN Answer(500, 0)
    ELSE IF request.content_length = "oversize" THEN Answer(413, 0)
    ELSE IF request.content_length = "none" THEN Answer(400, 0)
    ELSE IF request.body = "not_json" THEN Answer(400, 0)
    ELSE IF request.body = "invalid" THEN Answer(500, 0)
    ELSE Answer(200, 1)

do_POST(request) ==
    LET a == answer(server.auth_config, request)
    IN  /\ posted' = [request |-> request, status |-> a.status,
                      calls |-> a.calls, parity |-> 1 - posted.parity]
        /\ IF a.calls = 1
           THEN handle_push_content(request.content)
           ELSE UNCHANGED <<qvars, client>>
        /\ UNCHANGED <<error_handler, polled, panel, svars, server, fetching>>

\* a call of fetch_content() on its own, at any time
client_fetch(outcome) ==
    /\ client' = fetch_content(client, now, outcome)
    /\ polled' = [Polled(outcome, FALSE, now) EXCEPT !.fallback = None]
    /\ UNCHANGED <<qvars, error_handler, panel, svars, hvars, fetching>>

\* a call of _get_effective_poll_interval() on its own
effective_interval ==
    /\ last' = Call("_get_effective_poll_interval", None,
                    get_effective_poll_interval(client), "none")
    /\ UNCHANGED <<now, current, queue, interrupted, nadmit, dvars>>

\* d ms pass in the sleeps of the driver loop
Pass(d) ==
    /\ now' = now + d
    /\ current' = IF current = None THEN None
                  ELSE [current EXCEPT !.shown = current.shown + d]
    /\ UNCHANGED <<queue, interrupted, last, nadmit, dvars>>

(***************************************************************************)
(* The next-state relation of the queue alone, over the contents C a       *)
(* server may send.                                                        *)
(***************************************************************************)
NextOver(C, maxAdmissions, maxTime) ==
    \/ \E c \in C :
          nadmit < maxAdmissions /\ add_content(c) /\ UNCHANGED <<dvars, tvars>>
    \/ \E c \in C :
          nadmit < maxAdmissions /\ replace_if_same_id(c) /\ UNCHANGED <<dvars, tvars>>
    \/ update /\ UNCHANGED <<dvars, tvars>>
    \/ clear /\ UNCHANGED <<dvars, tvars>>
    \/ now < maxTime /\ Tick /\ UNCHANGED <<dvars, tvars>>

(***************************************************************************)
(* Spec: preemption and resumption.  Three channels of fixed priority      *)
(* (clock 0, notif 1, alert 2), each sending one-frame contents that play  *)
(* once and two-frame contents that loop forever; clock and notif          *)
(* contents are interruptible or not, alert contents (which nothing in     *)
(* this specification outranks) are interruptible.                         *)
(***************************************************************************)
Channels ==
    {<<"clock", 0, BOOLEAN>>, <<"notif", 1, BOOLEAN>>, <<"alert", 2, {TRUE}>>}
Once == <<<<1>>, FALSE, 0>>
Forever == <<<<1, 1>>, TRUE, 0>>

Contents ==
    UNION {{Content(ch[1], k[1], PlaybackMode(k[2], k[3], ch[2], i)) :
               k \in {Once, Forever}, i \in ch[3]} : ch \in Channels}

Next == NextOver(Contents, MaxAdmissions, MaxTime)

Spec == Init /\ [][Next]_vars

(***************************************************************************)
(* SpecPlay: frame timing and completion.  Interruptible contents of two   *)
(* ids and two priorities with every kind of frame list and loop mode:     *)
(* one frame of 2 ms or of no duration played once, two frames played      *)
(* once or twice (loop_count = 1), two frames looping forever.             *)
(***************************************************************************)
PlayKinds ==
    {<<<<2>>, FALSE, 0>>, <<<<0>>, FALSE, 0>>, <<<<1, 1>>, FALSE, 0>>,
     <<<<1, 1>>, TRUE, 1>>, <<<<2, 1>>, TRUE, 0>>}

PlayContents ==
    {Content(cid, k[1], PlaybackMode(k[2], k[3], p, TRUE)) :
        cid \in {"a", "b"}, k \in PlayKinds, p \in {0, 1}}

NextPlay == NextOver(PlayContents, PlayAdmissions, PlayTime)

SpecPlay == Init /\ [][NextPlay]_vars

(***************************************************************************)
(* SpecQueue: admission to the waiting queue and its overflow.  Three      *)
(* channels sending one-frame contents played once: clock (priority 0,     *)
(* interruptible), lock (priority 0, not interruptible) and urgent         *)
(* (priority 1, not interruptible).                                        *)
(***************************************************************************)
QueueChannels ==
    {<<"clock", 0, TRUE>>, <<"lock", 0, FALSE>>, <<"urgent", 1, FALSE>>}

QueueContents ==
    {Content(ch[1], Once[1], PlaybackMode(Once[2], Once[3], ch[2], ch[3])) :
        ch \in QueueChannels}

NextQueue == NextOver(QueueContents, QueueAdmissions, QueueTime)

SpecQueue == Init /\ [][NextQueue]_vars

(***************************************************************************)
(* SpecFifo: dispatch order of the waiting queue.  One-frame contents      *)
(* played once, not interruptible, of two ids and two priorities, so that  *)
(* a content can be replaced by one of the same id and another priority.   *)
(***************************************************************************)
FifoContents ==
    {Content(cid, Once[1], PlaybackMode(Once[2], Once[3], p, FALSE)) :
        cid \in {"a", "b"}, p \in {0, 1}}

NextFifo == NextOver(FifoContents, FifoAdmissions, FifoTime)

SpecFifo == Init /\ [][NextFifo]_vars

(***************************************************************************)
(* SpecStack: the overflow of the interrupted stack.  Four channels of     *)
(* increasing priority sending interruptible one-frame contents played     *)
(* once: each can preempt the ones below it, so the interrupted stack can  *)
(* grow past MAX_INTERRUPTED_ITEMS, and waits behind the ones above it.    *)
(* SpecBounds: the same channels with one more admission, enough to        *)
(* overflow the waiting queue as well.                                     *)
(***************************************************************************)
StackChannels ==
    {<<"clock", 0>>, <<"notif", 1>>, <<"alert", 2>>, <<"alarm", 3>>}

StackContents ==
    {Content(ch[1], Once[1], PlaybackMode(Once[2], Once[3], ch[2], TRUE)) :
        ch \in StackChannels}

NextStack == NextOver(StackContents, StackAdmissions, StackTime)

SpecStack == Init /\ [][NextStack]_vars

NextBounds == NextOver(StackContents, BoundsAdmissions, BoundsTime)

SpecBounds == Init /\ [][NextBounds]_vars

(***************************************************************************)
(* SpecPoll: the driver loop polling a server.  The client is configured   *)
(* with a backoff of 1 s doubling up to 4 s; the server answers with a     *)
(* poll interval of 1 s or 3 s and with no change, a clear, or an updated  *)
(* content of id clock: a still frame, a two-frame loop, or a still frame  *)
(* one pixel wider than the display; or the request fails.  Time passes    *)
(* by the second.                                                          *)
(***************************************************************************)
PollLimits == ClientBackoff(1000, 2, 4000)
PollIntervals == {1000, 3000}
PollWaits == {1000}

Still == Content("clock", <<0>>, PlaybackMode(FALSE, 0, 0, TRUE))
Looping == Content("clock", <<1000, 1000>>, PlaybackMode(TRUE, 0, 0, TRUE))
Wide ==
    [Still EXCEPT !.frames =
        [i \in DOMAIN Still.frames |->
            [Still.frames[i] EXCEPT !.width = display_width + 1]]]

PollResponses ==
    {ContentResponse("updated", c, i) :
        c \in {Still, Looping, Wide}, i \in PollIntervals}
    \cup {ContentResponse(st, None, i) :
             st \in {"no_change", "clear"}, i \in PollIntervals}

PollOutcomes ==
    {Fetched(r) : r \in PollResponses} \cup {Failed(k) : k \in FetchErrors}

InitPoll ==
    /\ InitQueue
    /\ Started
    /\ \E f \in ErrorFallback : InitDriver(PollLimits, f)

NextPoll ==
    \/ \E o \in PollOutcomes : poll_for_content(o) /\ UNCHANGED tvars
    \/ render_frame /\ UNCHANGED tvars
    \/ \E d \in PollWaits :
          now + d <= PollTime /\ Pass(d) /\ UNCHANGED tvars

SpecPoll == InitPoll /\ [][NextPoll]_vars

(***************************************************************************)
(* SpecIndex: frame indices.  Interruptible contents of id clock and of    *)
(* priority 0 or 1, of one frame or of three frames played once or of two  *)
(* frames looping forever, each frame lasting 1 ms: a content can be       *)
(* replaced by one with fewer frames while it is current, waiting or       *)
(* interrupted.                                                            *)
(***************************************************************************)
IndexTime == 3
IndexAdmissions == 3

IndexKinds ==
    {<<<<1>>, FALSE, 0>>, <<<<1, 1, 1>>, FALSE, 0>>, <<<<1, 1>>, TRUE, 0>>}

IndexContents ==
    {Content("clock", k[1], PlaybackMode(k[2], k[3], p, TRUE)) :
        k \in IndexKinds, p \in {0, 1}}

NextIndex == NextOver(IndexContents, IndexAdmissions, IndexTime)

SpecIndex == Init /\ [][NextIndex]_vars

(***************************************************************************)
(* SpecOutage: the driver loop through outages of the server, under each   *)
(* fallback policy.  The server answers no change or an updated content    *)
(* of id clock (a still frame, a two-frame loop, or a frame shown for 1 s  *)
(* once), or the request fails.                                            *)
(***************************************************************************)
OutageTime == 4001

Brief == Content("clock", <<1000>>, PlaybackMode(FALSE, 0, 0, TRUE))

OutageOutcomes ==
    {Fetched(ContentResponse("updated", c, 1000)) :
        c \in {Still, Looping, Brief}}
    \cup {Fetched(ContentResponse("no_change", None, 1000)),
          Failed("URLError")}

NextOutage ==
    \/ \E o \in OutageOutcomes : poll_for_content(o) /\ UNCHANGED tvars
    \/ render_frame /\ UNCHANGED tvars
    \/ \E d \in PollWaits :
          now + d <= OutageTime /\ Pass(d) /\ UNCHANGED tvars

SpecOutage == InitPoll /\ [][NextOutage]_vars

(***************************************************************************)
(* SpecPush: the driver thread polling while the push server delivers      *)
(* contents.  A request of the client takes time: the driver thread is     *)
(* inside fetch_content from begin_fetch to end_fetch, and meanwhile time  *)
(* passes and POSTs are answered.  The server answers an updated still     *)
(* frame of id clock or no change, or the request fails or times out.      *)
(* The POSTs carry the API key or none, and an alert of priority 1 that    *)
(* fits the display or is one pixel wider.                                 *)
(***************************************************************************)
PushTime == 4001
PushAdmissions == 3

Alert == Content("alert", <<0>>, PlaybackMode(FALSE, 0, 1, TRUE))
WideAlert ==
    [Alert EXCEPT !.frames =
        [i \in DOMAIN Alert.frames |->
            [Alert.frames[i] EXCEPT !.width = display_width + 1]]]

PushRequests ==
    {Request(<<>>, <<"key">>, "fits", "content", c) : c \in {Alert, WideAlert}}
    \cup {Request(<<>>, <<>>, "fits", "content", Alert)}

PushOutcomes ==
    {Fetched(ContentResponse("updated", Still, 1000)),
     Fetched(ContentResponse("no_change", None, 1000)),
     Failed("URLError"), Failed("Exception")}

InitPush == InitQueue /\ InitDriver(PollLimits, "keep_last") /\ Started

NextPush ==
    \/ begin_fetch /\ UNCHANGED tvars
    \/ \E o \in PushOutcomes : end_fetch(o) /\ UNCHANGED tvars
    \/ render_frame /\ UNCHANGED tvars
    \/ \E r \in PushRequests :
          nadmit < PushAdmissions /\ do_POST(r) /\ UNCHANGED tvars
    \/ \E d \in PollWaits :
          now + d <= PushTime /\ Pass(d) /\ UNCHANGED tvars

SpecPush == InitPush /\ [][NextPush]_vars

(***************************************************************************)
(* SpecPost: the push server under each auth configuration (bearer or      *)
(* API key, the token or key set or left unset), answering POSTs with      *)
(* every combination of an Authorization header (absent, the token, a      *)
(* wrong token, the word None), an X-API-Key header (absent, the key, a    *)
(* wrong key) and a payload: an alert that fits the display or not, JSON   *)
(* that is no Content, a body that is no JSON, no Content-Length, one      *)
(* above the limit, one that is no number.                                 *)
(***************************************************************************)
PostAdmissions == 2

PostAuths ==
    {AuthConfig("bearer", <<"token">>, <<>>), AuthConfig("bearer", <<>>, <<>>),
     AuthConfig("api_key", <<>>, <<"key">>), AuthConfig("api_key", <<>>, <<>>)}

Authorizations ==
    {<<>>, <<"Bearer", "token">>, <<"Bearer", "wrong">>, <<"Bearer", "None">>}

ApiKeys == {<<>>, <<"key">>, <<"wrong">>}

Payloads ==
    {<<"fits", "content", Alert>>, <<"fits", "content", WideAlert>>,
     <<"fits", "invalid", None>>, <<"fits", "not_json", None>>,
     <<"none", "not_json", None>>, <<"oversize", "content", Alert>>,
     <<"malformed", "content", Alert>>}

PostRequests ==
    {Request(a, k, p[1], p[2], p[3]) :
        a \in Authorizations, k \in ApiKeys, p \in Payloads}

InitPost ==
    /\ InitQueue
    /\ Started
    /\ InitClient(DEFAULT_LIMITS, "keep_last")
    /\ port = "ready"
    /\ InitSerial(FALSE, DEFAULT_SERIAL)
    /\ \E auth \in PostAuths : InitServer(auth)

NextPost ==
    \/ \E r \in PostRequests :
          nadmit < PostAdmissions /\ do_POST(r) /\ UNCHANGED tvars
    \/ render_frame /\ UNCHANGED tvars

SpecPost == InitPost /\ [][NextPost]_vars

(***************************************************************************)
(* SpecSerial: the serial connection alone, in dev mode or not, with a     *)
(* reconnect backoff of 1 s doubling up to 4 s and the error logged from   *)
(* 2 consecutive failures on.  The driver loop sleeps and writes, second   *)
(* after second; the device is plugged, jammed or unplugged at any time    *)
(* before PortSettles and stays as it is from then on, for as long as the  *)
(* longest backoff.  SpecSerialLive: the same, the driver loop never       *)
(* stopping (start() runs it while self.running).                          *)
(***************************************************************************)
PortSettles == 7001

SerialLimits == SerialConfig(2, 1000, 4000)
SerialTime == PortSettles + SerialLimits.max_reconnect_backoff_ms

\* the loop sleeps d ms and calls write()
write_after(d) ==
    /\ now' = now + d
    /\ serial_write_at(now + d)
    /\ UNCHANGED <<current, queue, interrupted, last, nadmit,
                   cvars, hvars, fetching>>

\* the device is plugged in ("ready"), jammed ("busy") or unplugged
port_changes(p) ==
    /\ p # port
    /\ port' = p
    /\ UNCHANGED <<qvars, cvars, serial, wrote, hvars, fetching>>

InitSerialAlone ==
    /\ InitQueue
    /\ Started
    /\ InitClient(DEFAULT_LIMITS, "keep_last")
    /\ InitServer(AuthConfig("api_key", <<>>, <<"key">>))
    /\ port \in PortStates
    /\ \E dev_mode \in BOOLEAN : InitSerial(dev_mode, SerialLimits)

loop_writes ==
    \E d \in PollWaits :
        now + d <= SerialTime /\ write_after(d) /\ UNCHANGED tvars

NextSerial ==
    \/ loop_writes
    \/ \E p \in PortStates :
          now < PortSettles /\ port_changes(p) /\ UNCHANGED tvars

SpecSerial == InitSerialAlone /\ [][NextSerial]_vars

SpecSerialLive == SpecSerial /\ WF_vars(loop_writes)

(***************************************************************************)
(* SpecBackoff: the poll client alone, with the default limits, through    *)
(* any sequence of requests that succeed (with a poll interval of 1 s,     *)
(* 30 s or 10 min) or fail, up to MaxErrors failures in a row.             *)
(***************************************************************************)
BackoffIntervals == {1000, 30000, 600000}

BackoffOutcomes ==
    {Fetched(ContentResponse("no_change", None, i)) : i \in BackoffIntervals}
    \cup {Failed(k) : k \in FetchErrors}

NextBackoff ==
    \/ \E o \in BackoffOutcomes :
          /\ o.kind # "ok" => client.consecutive_errors < MaxErrors
          /\ client_fetch(o)
          /\ UNCHANGED tvars
    \/ effective_interval /\ UNCHANGED tvars

SpecBackoff == Init /\ [][NextBackoff]_vars

(***************************************************************************)
(* Vocabulary of the properties.                                           *)
(***************************************************************************)
\* the step is a call of update() / of add_content()
UpdateStep == last'.op = "update" /\ now' = now /\ nadmit' = nadmit
AddStep == last'.op = "add_content" /\ nadmit' = nadmit + 1

\* the update() of this step found current complete and dropped it
DropStep ==
    /\ UpdateStep
    /\ current # None
    /\ last'.log \in {"resumed", "started next", "queue is empty"}

Frames(content) == {content.frames[i] : i \in 1..Len(content.frames)}
LastIndex(s) == Len(s.content.frames) - 1

(***************************************************************************)
(* C1: the first update() after add_content() admitted a content to an     *)
(* idle queue returns a frame of that content as long as the duration of   *)
(* its first frame has not elapsed (or is absent); it does not return      *)
(* None before.                                                            *)
(***************************************************************************)
C1_FirstUpdateReturnsFrame ==
    [][(/\ last.op = "add_content"
        /\ last.log = "started"
        /\ UpdateStep
        /\ \/ current_frame(current).duration_ms = 0
           \/ current.shown < current_frame(current).duration_ms)
       => last'.ret \in Frames(last.arg)]_vars

(***************************************************************************)
(* C2: update() drops the current content only at the end of its final     *)
(* frame: when it drops it, frame_index was already at the last frame and  *)
(* that frame has been on display for its duration_ms.                     *)
(***************************************************************************)
C2_DroppedOnlyAfterFinalFrame ==
    [][DropStep =>
        /\ current.frame_index = LastIndex(current)
        /\ current.shown >= current_frame(current).duration_ms]_vars

(***************************************************************************)
(* C3: while the current frame has no duration (absent or 0), update()     *)
(* changes nothing of current and returns that frame.                      *)
(***************************************************************************)
C3_NoDurationStaysForever ==
    [][(/\ UpdateStep
        /\ current # None
        /\ current_frame(current).duration_ms = 0)
       => /\ current' = current
          /\ last'.ret = current_frame(current)]_vars

Top(st) == st[Len(st)]
Priority(s) == s.content.playback.priority

(***************************************************************************)
(* C4: add_content(c) with c.priority > current.priority and current       *)
(* interruptible: the old current, paused, becomes the top of the          *)
(* interrupted stack, c becomes current at frame_index 0, and queue is     *)
(* unchanged.                                                              *)
(***************************************************************************)
C4_Preemption ==
    [][(/\ AddStep
        /\ current # None
        /\ last'.arg.playback.priority > Priority(current)
        /\ current.content.playback.interruptible)
       => /\ interrupted' # <<>>
          /\ Top(interrupted') =
                 [current EXCEPT !.paused = TRUE, !.paused_at = now]
          /\ current'.content = last'.arg
          /\ current'.seq = nadmit'
          /\ current'.frame_index = 0
          /\ ~current'.paused
          /\ queue' = queue]_vars

\* a content preempted one that had itself preempted another
C4_Witness ==
    /\ last.op = "add_content"
    /\ last.log = "interrupting"
    /\ Len(interrupted) = 2
    /\ Top(interrupted).paused
    /\ current.content = last.arg

(***************************************************************************)
(* C6: when update() finds current complete, the top of interrupted (the   *)
(* most recently interrupted) is popped, resumed and becomes current and   *)
(* queue is untouched; if interrupted is empty the head of queue becomes   *)
(* current; if both are empty current becomes None and update() returns    *)
(* None.                                                                   *)
(***************************************************************************)
C6_SuccessorOrder ==
    [][DropStep =>
        IF interrupted # <<>>
        THEN /\ current'.seq = Top(interrupted).seq
             /\ current'.content = Top(interrupted).content
             /\ ~current'.paused
             /\ interrupted' = SubSeq(interrupted, 1, Len(interrupted) - 1)
             /\ queue' = queue
        ELSE IF queue # <<>>
             THEN /\ current' = Head(queue)
                  /\ queue' = Tail(queue)
                  /\ interrupted' = <<>>
             ELSE /\ current' = None
                  /\ last'.ret = None
                  /\ queue' = <<>>
                  /\ interrupted' = <<>>]_vars

\* the later of two interrupted contents was resumed, the earlier one waits
C6_Witness ==
    /\ last.op = "update"
    /\ last.log = "resumed"
    /\ Len(interrupted) = 1
    /\ current.seq > interrupted[1].seq

(***************************************************************************)
(* C7: whenever current is interruptible, no content waiting in queue has  *)
(* a priority strictly greater than current's.                             *)
(***************************************************************************)
C7_HigherPriorityLeads ==
    (current # None /\ current.content.playback.interruptible)
    => \A i \in 1..Len(queue) : Priority(queue[i]) <= Priority(current)

(***************************************************************************)
(* C8: a content that was interrupted and is resumed by update() becomes   *)
(* current with the frame_index and loop_count it had when it was paused:  *)
(* they are kept when it is pushed, while it is on the stack, and when it  *)
(* is popped.  A stack entry put there by replace_if_same_id is not        *)
(* paused, and is not covered.                                             *)
(***************************************************************************)
SamePosition(s, t) ==
    /\ s.seq = t.seq
    /\ s.content = t.content
    /\ s.frame_index = t.frame_index
    /\ s.loop_count = t.loop_count

C8_ResumeWhereInterrupted ==
    [][/\ \A i \in 1..Len(interrupted') :
            interrupted'[i].paused =>
                \/ \E j \in 1..Len(interrupted) :
                      interrupted[j] = interrupted'[i]
                \/ /\ current # None
                   /\ AddStep
                   /\ i = Len(interrupted')
                   /\ SamePosition(interrupted'[i], current)
       /\ (DropStep /\ interrupted # <<>> /\ Top(interrupted).paused)
            => /\ SamePosition(current', Top(interrupted))
               /\ ~current'.paused]_vars

\* a content interrupted on its second frame has been resumed there
C8_Witness ==
    /\ last.op = "update"
    /\ last.log = "resumed"
    /\ current.via = "add_content"
    /\ current.frame_index = 1

\* the state constructed by the add_content() of this step is in q
Admitted(q) ==
    \E i \in 1..Len(q) : q[i].content = last'.arg /\ q[i].seq = nadmit'

\* add_content() does not preempt: lower or equal priority, or current locked
NoPreemptStep ==
    /\ AddStep
    /\ current # None
    /\ \/ last'.arg.playback.priority <= Priority(current)
       \/ ~current.content.playback.interruptible

(***************************************************************************)
(* C5 as claimed: add_content(c) with c.priority <= current.priority or    *)
(* current not interruptible leaves current and interrupted unchanged and  *)
(* places c in queue; a content of higher priority admitted while a        *)
(* non-interruptible one is current becomes current when that completes.   *)
(***************************************************************************)
C5_AlwaysQueued ==
    [][/\ NoPreemptStep
          => /\ current' = current
             /\ interrupted' = interrupted
             /\ Admitted(queue')
       /\ (/\ DropStep
           /\ ~current.content.playback.interruptible
           /\ queue # <<>>
           /\ Priority(Head(queue)) > Priority(current))
          => current' = Head(queue)]_vars

(***************************************************************************)
(* C5 amended: such an add_content(c) leaves current and interrupted       *)
(* unchanged and places c in queue, except that c is dropped and queue     *)
(* unchanged when queue already holds MAX_QUEUED_ITEMS entries, none of    *)
(* lower priority than c; the waiting content of higher priority becomes   *)
(* current when the non-interruptible current completes if interrupted is  *)
(* empty and it is the head of queue.                                      *)
(***************************************************************************)
C5_QueuedUnlessFull ==
    [][/\ NoPreemptStep
          => /\ current' = current
             /\ interrupted' = interrupted
             /\ IF /\ Len(queue) = MAX_QUEUED_ITEMS
                   /\ \A i \in 1..Len(queue) :
                         Priority(queue[i]) >= last'.arg.playback.priority
                THEN queue' = queue
                ELSE Admitted(queue')
       /\ (/\ DropStep
           /\ ~current.content.playback.interruptible
           /\ interrupted = <<>>
           /\ queue # <<>>
           /\ Priority(Head(queue)) > Priority(current))
          => current' = Head(queue)]_vars

\* a content of higher priority than the non-interruptible current was
\* dropped on admission because queue was full
C5_Witness ==
    /\ last.op = "add_content"
    /\ last.log = "cannot interrupt"
    /\ Len(queue) = MAX_QUEUED_ITEMS
    /\ \A i \in 1..Len(queue) : queue[i].seq # nadmit

(***************************************************************************)
(* C9: for a frame during which the content was interrupted and resumed,   *)
(* update() advances the frame exactly when the time it has been on        *)
(* display, before the pause and since the resume, has reached its         *)
(* duration_ms.                                                            *)
(***************************************************************************)
C9_PauseNeutral ==
    [][(/\ UpdateStep
        /\ current # None
        /\ current.time_paused > 0
        /\ current_frame(current).duration_ms # 0)
       => (advances(current, now)
             <=> current.shown >= current_frame(current).duration_ms)]_vars

(***************************************************************************)
(* C10: contents of equal priority inserted into queue, and not replaced,  *)
(* become current in the order of their admission: when update() makes     *)
(* the head of queue current, no content of the same priority admitted     *)
(* before it is still waiting.                                             *)
(***************************************************************************)
C10_FifoWithinPriority ==
    [][(UpdateStep /\ current # None /\ last'.log = "started next")
       => \A i \in 2..Len(queue) :
            (/\ Priority(queue[i]) = Priority(Head(queue))
             /\ queue[i].via = "add_content"
             /\ Head(queue).via = "add_content")
            => Head(queue).seq < queue[i].seq]_vars

(***************************************************************************)
(* C11: queue is ordered by non-increasing priority from head to tail, in  *)
(* every reachable state.                                                  *)
(***************************************************************************)
Sorted(q) == \A i \in 1..(Len(q) - 1) : Priority(q[i]) >= Priority(q[i + 1])

C11_QueueSorted == Sorted(queue)

(***************************************************************************)
(* C12: in every reachable state queue holds at most MAX_QUEUED_ITEMS      *)
(* entries and interrupted at most MAX_INTERRUPTED_ITEMS.                  *)
(***************************************************************************)
C12_Bounded ==
    /\ Len(queue) <= MAX_QUEUED_ITEMS
    /\ Len(interrupted) <= MAX_INTERRUPTED_ITEMS

\* add_content() found queue full and queue is still full: the content
\* it inserted was the tail and has been dropped
C12_Witness ==
    /\ last.op = "add_content"
    /\ last.log = "queued"
    /\ Len(queue) = MAX_QUEUED_ITEMS
    /\ nadmit > MAX_QUEUED_ITEMS + 1
    /\ \A i \in 1..Len(queue) : queue[i].seq < nadmit

(***************************************************************************)
(* C13: an add_content() that inserts into a full queue drops exactly one  *)
(* entry, the tail of the queue after the insertion; the dropped entry has *)
(* the lowest priority of all and, among the entries of its priority that  *)
(* add_content() admitted, it is the most recent; the others keep their    *)
(* order.                                                                  *)
(***************************************************************************)
OverflowStep ==
    /\ AddStep
    /\ current # None
    /\ last'.log \in {"queued", "cannot interrupt"}
    /\ Len(queue) = MAX_QUEUED_ITEMS

C13_TailDropped ==
    [][OverflowStep =>
        \E k \in 0..Len(queue) :
            LET new == ContentState(last'.arg, now, nadmit', "add_content")
                full == insert_at(queue, k, new)
                dropped == full[Len(full)]
            IN  /\ queue' = SubSeq(full, 1, MAX_QUEUED_ITEMS)
                /\ \A i \in 1..Len(full) :
                      Priority(full[i]) >= Priority(dropped)
                /\ \A i \in 1..(Len(full) - 1) :
                      (/\ Priority(full[i]) = Priority(dropped)
                       /\ full[i].via = "add_content"
                       /\ dropped.via = "add_content")
                      => full[i].seq < dropped.seq]_vars

(***************************************************************************)
(* C14: an add_content() that preempts while interrupted already holds     *)
(* MAX_INTERRUPTED_ITEMS entries drops exactly the bottom of the stack;    *)
(* the content just interrupted is on top, and is the one the next         *)
(* completion resumes.                                                     *)
(***************************************************************************)
C14_OldestInterruptedDropped ==
    [][/\ (/\ AddStep
            /\ last'.log = "interrupting"
            /\ Len(interrupted) = MAX_INTERRUPTED_ITEMS)
           => /\ Len(interrupted') = MAX_INTERRUPTED_ITEMS
              /\ \A i \in 1..(Len(interrupted) - 1) :
                    interrupted'[i] = interrupted[i + 1]
              /\ Top(interrupted').seq = current.seq
              /\ Top(interrupted').content = current.content
       /\ (/\ DropStep
            /\ last.op = "add_content"
            /\ last.log = "interrupting")
           => /\ last'.log = "resumed"
              /\ current'.seq = Top(interrupted).seq]_vars

\* the content interrupted by the push that overflowed the stack has been
\* resumed: the stack had lost its bottom (the first content admitted)
C14_Witness ==
    /\ last.op = "update"
    /\ last.log = "resumed"
    /\ nadmit = MAX_INTERRUPTED_ITEMS + 2
    /\ current.seq = nadmit - 1
    /\ Len(interrupted) = MAX_INTERRUPTED_ITEMS - 1
    /\ interrupted[1].seq = 2

(***************************************************************************)
(* C15: whenever current is None, queue and interrupted are both empty.    *)
(***************************************************************************)
C15_IdleMeansEmpty ==
    current = None => (queue = <<>> /\ interrupted = <<>>)

\* update() dropped the last of several contents and left the queue idle
C15_Witness ==
    /\ current = None
    /\ last.op = "update"
    /\ last.log = "queue is empty"
    /\ nadmit >= 2

(***************************************************************************)
(* C16: replace_if_same_id(c) replaces the first state with c's id, looked *)
(* for in current, then in queue from the head, then in interrupted from   *)
(* the bottom: that state becomes a new state of content c in the same     *)
(* place, everything else is unchanged and the call returns TRUE; if no    *)
(* state has the id it returns FALSE and changes nothing.                  *)
(***************************************************************************)
ReplaceStep == last'.op = "replace_if_same_id" /\ now' = now

HasId(s, c) == s.content.content_id = c.content_id

\* t is seq with the state at index i replaced by a new state of content c
ReplacedAt(t, seq, i, c) ==
    /\ Len(t) = Len(seq)
    /\ t[i].content = c
    /\ t[i].seq = nadmit'
    /\ \A j \in 1..Len(seq) : j # i => t[j] = seq[j]

\* i is the index of the first state of seq with the id of c
FirstHit(seq, i, c) ==
    /\ i \in 1..Len(seq)
    /\ HasId(seq[i], c)
    /\ \A j \in 1..(i - 1) : ~HasId(seq[j], c)

NoHit(seq, c) == \A j \in 1..Len(seq) : ~HasId(seq[j], c)

C16_ReplacesFirstHit ==
    [][ReplaceStep =>
        LET c == last'.arg
        IN  \/ /\ current # None /\ HasId(current, c)
               /\ current'.content = c /\ current'.seq = nadmit'
               /\ queue' = queue /\ interrupted' = interrupted
               /\ last'.ret = TRUE
            \/ /\ current # None /\ ~HasId(current, c)
               /\ \E i \in 1..Len(queue) :
                     FirstHit(queue, i, c) /\ ReplacedAt(queue', queue, i, c)
               /\ current' = current /\ interrupted' = interrupted
               /\ last'.ret = TRUE
            \/ /\ current # None /\ ~HasId(current, c) /\ NoHit(queue, c)
               /\ \E i \in 1..Len(interrupted) :
                     /\ FirstHit(interrupted, i, c)
                     /\ ReplacedAt(interrupted', interrupted, i, c)
               /\ current' = current /\ queue' = queue
               /\ last'.ret = TRUE
            \/ /\ current = None \/ ~HasId(current, c)
               /\ NoHit(queue, c) /\ NoHit(interrupted, c)
               /\ current' = current /\ queue' = queue
               /\ interrupted' = interrupted
               /\ last'.ret = FALSE]_vars

\* of two queued states and an interrupted one with the same id, the one
\* at the head of queue has been replaced
C16_Witness ==
    /\ last.op = "replace_if_same_id"
    /\ last.log = "replacing queued"
    /\ Len(queue) = 2
    /\ HasId(queue[2], last.arg)
    /\ queue[1].seq = nadmit
    /\ queue[2].seq < nadmit
    /\ interrupted # <<>>
    /\ HasId(interrupted[1], last.arg)
    /\ interrupted[1].seq < nadmit

(***************************************************************************)
(* C17: when replace_if_same_id(c) hits current, the new current is at the *)
(* old frame_index if c has more than frame_index frames, and at frame 0   *)
(* otherwise.                                                              *)
(***************************************************************************)
ReplaceCurrentStep == ReplaceStep /\ last'.log = "replacing current"

C17_FrameIndexKept ==
    [][ReplaceCurrentStep =>
        /\ current'.content = last'.arg
        /\ current'.frame_index =
              IF Len(last'.arg.frames) > current.frame_index
              THEN current.frame_index ELSE 0]_vars

\* current was on its second frame when it was replaced, and still is
C17_Witness ==
    /\ last.op = "replace_if_same_id"
    /\ last.log = "replacing current"
    /\ current.seq = nadmit
    /\ current.frame_index = 1

(***************************************************************************)
(* C18: when replace_if_same_id(c) hits current and keeps its frame_index, *)
(* it keeps the timing of the frame in progress: frame_start_time and      *)
(* time_paused of current are what they were before the call.              *)
(***************************************************************************)
C18_TimingKept ==
    [][(/\ ReplaceCurrentStep
        /\ current.frame_index < Len(last'.arg.frames))
       => /\ current'.frame_start_time = current.frame_start_time
          /\ current'.time_paused = current.time_paused]_vars

(***************************************************************************)
(* C19: a poll that succeeds sets the client's interval to the response's  *)
(* poll_interval_ms, resets consecutive_errors to 0 and returns the        *)
(* response; a poll that fails, by an error of the request or by the       *)
(* rejection of the content for its dimensions, increments                 *)
(* consecutive_errors by 1 and leaves the interval unchanged, and a failed *)
(* request yields None.                                                    *)
(***************************************************************************)
PollStep == client'.last_poll_time # client.last_poll_time

C19_PollAccounting ==
    [][PollStep =>
        IF polled'.outcome \in FetchErrors \/ polled'.rejected
        THEN /\ client'.consecutive_errors = client.consecutive_errors + 1
             /\ client'.poll_interval_ms = client.poll_interval_ms
             /\ polled'.outcome \in FetchErrors => polled'.ret = None
        ELSE /\ polled'.ret # None
             /\ client'.poll_interval_ms = polled'.ret.poll_interval_ms
             /\ client'.consecutive_errors = 0]_vars

(***************************************************************************)
(* C20: _get_effective_poll_interval() returns poll_interval_ms when       *)
(* consecutive_errors = 0 and otherwise the larger of poll_interval_ms and *)
(* initial_backoff_ms * multiplier^(consecutive_errors - 1) capped at      *)
(* max_backoff_ms; it is at least poll_interval_ms and does not decrease   *)
(* when consecutive_errors grows by one.                                   *)
(***************************************************************************)
\* min(max_backoff_ms, initial_backoff_ms * multiplier^n) for the default
\* limits, whose backoff is over the cap from n = 9 on
BackoffOf(c, n) ==
    IF n > 20 THEN c.limits.max_backoff_ms
    ELSE Min(c.limits.max_backoff_ms,
             c.limits.initial_backoff_ms * c.limits.backoff_multiplier ^ n)

C20_EffectiveInterval ==
    LET r == get_effective_poll_interval(client)
        more == get_effective_poll_interval(
                    [client EXCEPT !.consecutive_errors = @ + 1])
    IN  /\ ~r.raised
        /\ r.value = IF client.consecutive_errors = 0
                     THEN client.poll_interval_ms
                     ELSE Max(client.poll_interval_ms,
                              BackoffOf(client, client.consecutive_errors - 1))
        /\ r.value >= client.poll_interval_ms
        /\ ~more.raised
        /\ more.value >= r.value

(***************************************************************************)
(* C23: a poll whose request fails takes the fallback the policy           *)
(* determines: with keep_last the most recent response that carried a      *)
(* content (the handler holds it: every fetched response with a content    *)
(* is stored, and nothing else changes what is stored), or nothing, and    *)
(* then queue, panel and serial connection are untouched; with blank a     *)
(* clear response; with error_message a clear response with a poll         *)
(* interval of 10000 ms.  The fallback leaves the client's accounting of   *)
(* the failure as fetch_content made it.                                   *)
(***************************************************************************)
CarriedContent(response) == response # None /\ response.content # None

C23_FallbackByPolicy ==
    [][PollStep =>
        /\ error_handler'.last_successful_content =
              IF CarriedContent(polled'.ret) THEN polled'.ret
              ELSE error_handler.last_successful_content
        /\ polled'.ret = None =>
              /\ client'.consecutive_errors = client.consecutive_errors + 1
              /\ client'.poll_interval_ms = client.poll_interval_ms
              /\ error_handler.fallback = "keep_last" =>
                    /\ polled'.fallback =
                          error_handler.last_successful_content
                    /\ polled'.fallback = None =>
                          UNCHANGED <<current, queue, interrupted, panel,
                                      svars>>
              /\ error_handler.fallback = "blank" =>
                    /\ polled'.fallback.status = "clear"
                    /\ polled'.fallback.content = None
              /\ error_handler.fallback = "error_message" =>
                    /\ polled'.fallback.status = "clear"
                    /\ polled'.fallback.content = None
                    /\ polled'.fallback.poll_interval_ms = 10000]_vars

\* a failed poll under keep_last fell back on a response fetched before
C23_Witness ==
    /\ error_handler.fallback = "keep_last"
    /\ polled.ret = None
    /\ polled.fallback # None
    /\ polled.fallback.content = Looping
    /\ client.consecutive_errors = 2

(***************************************************************************)
(* C24: under keep_last, once a poll has delivered a content, a poll       *)
(* whose request fails leaves current, the waiting queue and the           *)
(* interrupted stack as they are.                                          *)
(***************************************************************************)
C24_OutageLeavesPlayback ==
    [][(/\ PollStep
        /\ polled'.outcome \in FetchErrors
        /\ error_handler.fallback = "keep_last"
        /\ error_handler.last_successful_content # None)
       => UNCHANGED <<current, queue, interrupted>>]_vars

(***************************************************************************)
(* C21: every fetch stamps last_poll_time when it starts, no fetch starts  *)
(* while another is under way, and a fetch that follows a failed one       *)
(* starts no earlier than the effective interval (of the client with the   *)
(* failure counted) after the start of the failed one, whatever was        *)
(* pushed in between.                                                      *)
(***************************************************************************)
FetchStarts == fetching' /\ ~fetching

C21_NoRetryBeforeBackoff ==
    [][/\ FetchStarts => client'.last_poll_time = now
       /\ fetching => polled'.started = polled.started
       /\ (FetchStarts /\ polled.outcome \in FetchErrors) =>
             /\ ~get_effective_poll_interval(client).raised
             /\ now - polled.started >=
                   get_effective_poll_interval(client).value]_vars

\* a fetch has started after two failures in a row, the backoff (2 s)
\* being longer than the poll interval (1 s), and after a push that
\* preempted the polled content
C21_Witness ==
    /\ fetching
    /\ polled.outcome \in FetchErrors
    /\ client.consecutive_errors = 2
    /\ client.poll_interval_ms = 1000
    /\ posted.status = 200
    /\ first_with_id(interrupted, "clock") # 0

(***************************************************************************)
(* C22: right after a push has called reset_poll_timer(), should_poll()    *)
(* is true and get_next_poll_delay_ms() is 0.                              *)
(***************************************************************************)
PostStep == posted'.parity # posted.parity

Fits(content) ==
    validate_display_dimensions(content, display_width, display_height)

ResetStep ==
    PostStep /\ posted'.calls = 1 /\ Fits(posted'.request.content)

C22_ResetForcesPoll ==
    [][ResetStep =>
        /\ should_poll(client', now')
        /\ get_next_poll_delay_ms(client', now') = Returns(0)]_vars

(***************************************************************************)
(* C26: a pushed content that does not fit the display leaves current,     *)
(* the waiting queue, the interrupted stack, the client (its poll timer)   *)
(* and the serial connection as they are, and nothing is set on the panel  *)
(* or written.                                                             *)
(***************************************************************************)
C26_MisfitPushChangesNothing ==
    [][(PostStep /\ posted'.calls = 1 /\ ~Fits(posted'.request.content))
       => UNCHANGED <<current, queue, interrupted, nadmit, client,
                      panel, serial, wrote>>]_vars

\* a misfit has been pushed while a content plays, another waits and the
\* poll timer runs
C26_Witness ==
    /\ posted.calls = 1
    /\ ~Fits(posted.request.content)
    /\ current # None
    /\ queue # <<>>
    /\ client.last_poll_time # 0
    /\ wrote.how = "ok"

(***************************************************************************)
(* C25: a POST whose content is not admitted is answered 400, 401, 413 or  *)
(* 422.                                                                    *)
(***************************************************************************)
C25_RejectionStatus ==
    [][PostStep =>
        \/ nadmit' = nadmit + 1
        \/ posted'.status \in {400, 401, 413, 422}]_vars

(***************************************************************************)
(* C27: a POST that does not present the configured credential (the token  *)
(* after Bearer in the Authorization header, or the key in the X-API-Key   *)
(* header; none is presented when none is set) is answered 401, does not   *)
(* call the callback and leaves the queue unchanged; the callback is       *)
(* called at most once per POST and only when the answer is 200.           *)
(***************************************************************************)
Presents(auth, request) ==
    IF auth.type = "bearer"
    THEN /\ auth.token # <<>>
         /\ request.authorization = <<"Bearer", auth.token[1]>>
    ELSE /\ auth.key # <<>>
         /\ request.api_key = auth.key

C27_OnlyAuthenticated ==
    [][PostStep =>
        /\ ~Presents(server.auth_config, posted'.request) =>
              /\ posted'.status = 401
              /\ posted'.calls = 0
              /\ UNCHANGED <<current, queue, interrupted, nadmit>>
        /\ posted'.calls <= 1
        /\ posted'.calls = 1 => posted'.status = 200]_vars

(***************************************************************************)
(* C28: outside dev mode, after a write() that returned ok the connection  *)
(* holds an open handle, and after a write() that returned err it holds    *)
(* none.                                                                   *)
(***************************************************************************)
C28_HandleFollowsResult ==
    (~serial.dev_mode /\ wrote.how # "none") =>
        (serial.handle = IF wrote.ret THEN "open" ELSE "none")

(***************************************************************************)
(* C29: reconnect_backoff_ms starts at initial_reconnect_backoff_ms and    *)
(* stays between it and max_reconnect_backoff_ms; every reconnection       *)
(* attempt that fails doubles it up to the maximum; it changes in no       *)
(* other way than by that or by a connection that succeeds, which sets it  *)
(* to the initial value; after every write() that returns ok it is the     *)
(* initial value.                                                          *)
(***************************************************************************)
WriteStep == now' # now

Doubled(s) ==
    Min(2 * s.reconnect_backoff_ms, s.limits.max_reconnect_backoff_ms)

C29_ReconnectBackoff ==
    /\ serial.reconnect_backoff_ms =
          serial.limits.initial_reconnect_backoff_ms
    /\ [](/\ serial.reconnect_backoff_ms >=
                serial.limits.initial_reconnect_backoff_ms
          /\ serial.reconnect_backoff_ms <=
                serial.limits.max_reconnect_backoff_ms)
    /\ [][/\ (WriteStep /\ wrote'.how = "unreachable") =>
               serial'.reconnect_backoff_ms = Doubled(serial)
          /\ serial'.reconnect_backoff_ms # serial.reconnect_backoff_ms =>
               \/ /\ WriteStep /\ wrote'.how = "unreachable"
               \/ /\ WriteStep
                  /\ serial.handle = "none"
                  /\ serial'.last_reconnect_attempt = now'
                  /\ serial'.reconnect_backoff_ms =
                        serial.limits.initial_reconnect_backoff_ms
          /\ (WriteStep /\ wrote'.ret) =>
               serial'.reconnect_backoff_ms =
                   serial.limits.initial_reconnect_backoff_ms]_vars

\* the backoff has reached its maximum and a failed attempt has left it there
C29_Witness ==
    /\ wrote.how = "unreachable"
    /\ serial.reconnect_backoff_ms = serial.limits.max_reconnect_backoff_ms
    /\ wrote.failures_before >= serial.limits.max_consecutive_failures

C40_WaitNotCounted ==
    [][(/\ UpdateStep
        /\ last'.log = "started next"
        /\ current_frame(current').duration_ms # 0)
       => elapsed_ms(current', now') = current'.shown]_vars

(***************************************************************************)
(* C38: the frame_index of every state in current, queue and interrupted   *)
(* is an index of its content's frames, so current_frame is defined.       *)
(***************************************************************************)
InRange(s) == 0 <= s.frame_index /\ s.frame_index < Len(s.content.frames)

C38_FrameIndexInRange ==
    /\ current # None => InRange(current)
    /\ \A i \in 1..Len(queue) : InRange(queue[i])
    /\ \A i \in 1..Len(interrupted) : InRange(interrupted[i])

\* current has been replaced by a content of a single frame, late enough
\* to have been on its third frame, while a content on its second frame
\* is interrupted
C38_Witness ==
    /\ last.op = "replace_if_same_id"
    /\ last.log = "replacing current"
    /\ current.frame_index = 0
    /\ Len(current.content.frames) = 1
    /\ now >= 3
    /\ interrupted # <<>>
    /\ interrupted[1].frame_index = 1

(***************************************************************************)
(* C39: current is never paused, and neither is a state waiting in queue:  *)
(* paused states are found on the interrupted stack only.                  *)
(***************************************************************************)
C39_CurrentNotPaused ==
    /\ current # None => ~current.paused
    /\ \A i \in 1..Len(queue) : ~queue[i].paused

\* a content has been resumed after a pause of 1 ms or more while another
\* one is still paused on the stack
C39_Witness ==
    /\ last.log = "resumed"
    /\ current.time_paused > 0
    /\ ~current.paused
    /\ interrupted # <<>>
    /\ Top(interrupted).paused

(***************************************************************************)
(* C35: no two playback states held in current, queue and interrupted      *)
(* have the same content_id.                                               *)
(***************************************************************************)
Held == (IF current = None THEN <<>> ELSE <<current>>) \o queue \o interrupted

C35_OneStatePerId ==
    \A i, j \in 1..Len(Held) :
        i # j => Held[i].content.content_id # Held[j].content.content_id

(***************************************************************************)
(* C36: no POST, whatever the push server's thread does to answer it,      *)
(* changes the poll client.                                                *)
(***************************************************************************)
C36_ClientOwnedByLoop == [][PostStep => client' = client]_vars

(***************************************************************************)
(* The panel (hardware.py).  A matrix is a sequence of rows of 0 and 1, a  *)
(* byte string a sequence of integers in 0..255.                           *)
(***************************************************************************)
START_BYTES_FLUSH == <<128, 131>>

START_BYTES_BUFFER == <<128, 132>>

END_BYTES == <<143>>

RECURSIVE flatten(_)
\* flat.extend(row) for each row
flatten(rows) ==
    IF rows = <<>> THEN <<>> ELSE Head(rows) \o flatten(Tail(rows))

RECURSIVE pack_byte(_, _, _)
\* byte |= 1 << j for the j in range(8) with i + j < len(bits) and
\* bits[i + j]; the model's sequences start at 1
pack_byte(bits, i, j) ==
    IF j = 8 THEN 0
    ELSE (IF i + j < Len(bits) /\ bits[i + j + 1] # 0 THEN 2 ^ j ELSE 0)
         + pack_byte(bits, i, j + 1)

\* one byte for each i in range(0, len(bits), 8)
pack_bits_little_endian(bits) ==
    [k \in 1..((Len(bits) + 7) \div 8) |-> pack_byte(bits, 8 * (k - 1), 0)]

\* FlippyModule.__init__
FlippyModule(width, height, address) ==
    [width |-> width, height |-> height, address |-> address,
     content |-> [i \in 1..(width * height) |-> 0]]

\* FlippyModule.set_content: the module with the rows stored flat, or
\* ValueError
module_set_content(m, content) ==
    IF \/ Len(content) # m.height
       \/ \E i \in 1..Len(content) : Len(content[i]) # m.width
    THEN Raises
    ELSE Returns([m EXCEPT !.content = flatten(content)])

\* FlippyModule.get_content
module_get_content(m) ==
    [i \in 1..m.height |-> SubSeq(m.content, (i - 1) * m.width + 1,
                                  (i - 1) * m.width + m.width)]

RECURSIVE column_byte_msb(_, _, _)
column_byte_msb(m, col, row) ==
    IF row = m.height THEN 0
    ELSE (IF m.content[row * m.width + col + 1] # 0
          THEN 2 ^ (m.height - 1 - row) ELSE 0)
         + column_byte_msb(m, col, row + 1)

RECURSIVE column_byte(_, _, _)
\* the byte of column col: byte_val |= 1 << bit_pos for each lit bit of
\* the column, read top to bottom from row on
column_byte(m, col, row) ==
    IF row = m.height THEN 0
    ELSE (IF m.content[row * m.width + col + 1] # 0 THEN 2 ^ row ELSE 0)
         + column_byte(m, col, row + 1)

\* FlippyModule.fetch_serial_command
fetch_serial_command(m, flush) ==
    (IF flush THEN START_BYTES_FLUSH ELSE START_BYTES_BUFFER)
    \o <<m.address>>
    \o [col \in 1..m.width |-> column_byte(m, col - 1, 0)]
    \o END_BYTES

\* Panel.__init__ with a rectangular layout
Panel(layout, module_width, module_height) ==
    [modules |-> [r \in 1..Len(layout) |->
                     [c \in 1..Len(layout[r]) |->
                         FlippyModule(module_width, module_height,
                                      layout[r][c])]],
     n_rows |-> Len(layout),
     n_cols |-> Len(layout[1]),
     module_width |-> module_width,
     module_height |-> module_height,
     total_width |-> module_width * Len(layout[1]),
     total_height |-> module_height * Len(layout)]

\* Panel.get_content: the rows of each row of modules, each row the
\* concatenation of the modules' rows
panel_get_content(p) ==
    flatten([r \in 1..p.n_rows |->
        [i \in 1..p.module_height |->
            flatten([c \in 1..p.n_cols |->
                module_get_content(p.modules[r][c])[i]])]])

\* the rows row_start..row_end of the matrix cut to col_start..col_end
module_data(p, matrix_data, r, c) ==
    [i \in 1..p.module_height |->
        SubSeq(matrix_data[(r - 1) * p.module_height + i],
               (c - 1) * p.module_width + 1,
               (c - 1) * p.module_width + p.module_width)]

\* the commands of all modules, row of modules by row of modules
serial_data(p) ==
    flatten([r \in 1..p.n_rows |->
        flatten([c \in 1..p.n_cols |->
            fetch_serial_command(p.modules[r][c], TRUE)])])

\* Panel.set_content: the panel afterwards and what the call returns
panel_set_content(p, matrix_data) ==
    IF \/ Len(matrix_data) # p.total_height
       \/ \E i \in 1..Len(matrix_data) : Len(matrix_data[i]) # p.total_width
    THEN [panel |-> p, ret |-> Raises]
    ELSE LET set == [p EXCEPT !.modules =
                        [r \in 1..p.n_rows |-> [c \in 1..p.n_cols |->
                            module_set_content(
                                p.modules[r][c],
                                module_data(p, matrix_data, r, c)).value]]]
         IN  [panel |-> set, ret |-> Returns(serial_data(set))]

unpack_bits_msb(frame_data) ==
    [k \in 1..(8 * Len(frame_data)) |->
        (frame_data[((k - 1) \div 8) + 1] \div (2 ^ (7 - ((k - 1) % 8)))) % 2]

\* (byte >> bit_pos) & 1 for each byte and each bit_pos in range(8)
unpack_bits(frame_data) ==
    [k \in 1..(8 * Len(frame_data)) |->
        (frame_data[((k - 1) \div 8) + 1] \div (2 ^ ((k - 1) % 8))) % 2]

\* Panel.set_content_from_frame
set_content_from_frame(p, frame_data, width, height) ==
    IF width # p.total_width \/ height # p.total_height
    THEN [panel |-> p, ret |-> Raises]
    ELSE LET bits == unpack_bits(frame_data)
             bit_idx(r, c) == (r - 1) * width + (c - 1)
         IN  panel_set_content(p,
                 [r \in 1..height |-> [c \in 1..width |->
                     IF bit_idx(r, c) < Len(bits)
                     THEN bits[bit_idx(r, c) + 1] ELSE 0]])

(***************************************************************************)
(* SpecPanel: a panel is constructed and a matrix drawn; the matrix is set *)
(* on the panel as it is, or packed into a frame and set from the frame,   *)
(* and the display is cleared, in any order.  last.arg is the matrix.      *)
(***************************************************************************)
MaxLit == 2

\* a grid of 2 by 2 modules of 2 by 2 pixels, and the two modules, one
\* above the other, of the default layout with 3 by 2 pixels each
Panels == {Panel(<<<<1, 2>>, <<3, 4>>>>, 2, 2), Panel(<<<<1>>, <<2>>>>, 3, 2)}

Cells(p) == (1..p.total_height) \X (1..p.total_width)

\* the matrices of the panel's dimensions with the cells of S lit, or with
\* all cells but those of S lit
Matrices(p) ==
    {[r \in 1..p.total_height |-> [c \in 1..p.total_width |->
          IF (<<r, c>> \in S) = lit THEN 1 ELSE 0]] :
     S \in {T \in SUBSET Cells(p) : Cardinality(T) <= MaxLit},
     lit \in BOOLEAN}

PanelMatrices == UNION {Matrices(p) : p \in Panels}

InitPanel ==
    /\ now = 1
    /\ current = None
    /\ queue = <<>>
    /\ interrupted = <<>>
    /\ nadmit = 0
    /\ client = ContentClient(DEFAULT_LIMITS)
    /\ error_handler = ErrorHandler("keep_last")
    /\ polled = NotPolled
    /\ fetching = FALSE
    /\ port = "ready"
    /\ InitSerial(FALSE, DEFAULT_SERIAL)
    /\ InitServer(AuthConfig("api_key", <<>>, <<"key">>))
    /\ panel \in Panels
    /\ Started
    /\ \E M \in PanelMatrices : last = Call("init", M, None, "none")

\* the panel and the call's result after an operation of the panel
Set(op, result) ==
    /\ panel' = result.panel
    /\ last' = Call(op, last.arg, result.ret, "none")
    /\ UNCHANGED <<now, current, queue, interrupted, nadmit, client,
                   error_handler, polled, fetching, svars, hvars, tvars>>

set_matrix == Set("set_content", panel_set_content(panel, last.arg))

set_frame ==
    Set("set_content_from_frame",
        set_content_from_frame(panel,
                               pack_bits_little_endian(flatten(last.arg)),
                               Len(last.arg[1]), Len(last.arg)))

\* _clear_display sets height rows of width zeros
clear_display ==
    Set("clear",
        panel_set_content(panel,
            [r \in 1..panel.total_height |->
                [c \in 1..panel.total_width |-> 0]]))

NextPanel == set_matrix \/ set_frame \/ clear_display

SpecPanel == InitPanel /\ [][NextPanel]_vars

\* the operation of the panel that has just returned, if it returned
Packed == last.op \in {"set_content", "set_content_from_frame"}
          /\ ~last.ret.raised

\* bit i of byte b
Bit(b, i) == (b \div (2 ^ i)) % 2

C34_RoundTrip ==
    Packed =>
        /\ panel_get_content(panel) = last.arg
        /\ \A r \in 1..panel.n_rows, c \in 1..panel.n_cols :
             \A i \in 0..(panel.module_height - 1),
                j \in 0..(panel.module_width - 1) :
                 panel.modules[r][c].content[i * panel.module_width + j + 1] =
                     last.arg[(r - 1) * panel.module_height + i + 1]
                             [(c - 1) * panel.module_width + j + 1]

\* a matrix of 12 bits, its last pixel lit, has been packed into 2 bytes
\* and set from them
C34_Witness ==
    /\ Packed
    /\ last.op = "set_content_from_frame"
    /\ (panel.total_width * panel.total_height) % 8 # 0
    /\ last.arg[panel.total_height][panel.total_width] = 1
    /\ last.arg[1][1] = 0

(***************************************************************************)
(* FlipDotDriver.start and stop.  pc is "init" before start(), "poll",     *)
(* "render" or "sleep" inside the loop, "finally" when the loop has been   *)
(* left for the finally clause, "exit" after it.                           *)
(***************************************************************************)
InLoop == {"poll", "render", "sleep"}

\* start() up to the loop: push_server.start(), running = True
start ==
    /\ pc = "init"
    /\ serving' = TRUE
    /\ running' = TRUE
    /\ pc' = "poll"
    /\ UNCHANGED <<qvars, dvars, stopping, lock, pending>>

\* a caller of write() that raises when it returns False
write_failure_raised(ok) == ~ok

\* _clear_display and _render_frame log a write() that returned False
write_failure(ok) == FALSE

\* a write() of this step has failed
FailedWrite == serial'.consecutive_failures > serial.consecutive_failures

\* where the main thread is after a step of the loop that leads to next
\* unless it raises
proceed(next) ==
    pc' = IF FailedWrite /\ write_failure(wrote'.ret) THEN "finally" ELSE next

\* self._poll_for_content(), which returns at once when no poll is due
loop_poll(outcome) ==
    /\ pc = "poll"
    /\ running
    /\ IF should_poll(client, now)
       THEN poll_for_content(outcome)
       ELSE UNCHANGED <<qvars, dvars>>
    /\ proceed("render")
    /\ UNCHANGED <<running, serving, stopping, lock, pending>>

\* self._render_frame()
loop_render ==
    /\ pc = "render"
    /\ render_frame
    /\ proceed("sleep")
    /\ UNCHANGED <<running, serving, stopping, lock, pending>>

\* time.sleep(sleep_seconds)
loop_sleep(d) ==
    /\ pc = "sleep"
    /\ Pass(d)
    /\ pc' = "poll"
    /\ UNCHANGED <<running, serving, stopping, lock, pending>>

\* stop(): nothing when not running; else running = False,
\* push_server.stop(), _clear_display(), serial.close(), which closes the
\* handle and keeps the reference to it
stop ==
    /\ IF ~running
       THEN UNCHANGED <<running, serving, stopping, panel, svars>>
       ELSE /\ running' = FALSE
            /\ serving' = FALSE
            /\ panel' = blank
            /\ serial_write
            /\ stopping' = stopping \o <<"push_server.stop",
                                         "_clear_display", "serial.close">>
    /\ UNCHANGED <<qvars, client, error_handler, polled, hvars, fetching,
                   lock, pending>>

\* signal_handler on SIGTERM or SIGINT: driver.stop() and sys.exit(0),
\* whose SystemExit leaves the loop through the finally clause
signal ==
    /\ pc \in InLoop
    /\ stop
    /\ pc' = "finally"

\* KeyboardInterrupt, or an exception that escapes the body of the loop
interrupt ==
    /\ pc \in InLoop
    /\ pc' = "finally"
    /\ UNCHANGED <<qvars, dvars, running, serving, stopping, lock, pending>>

\* finally: self.stop()
finally_stop ==
    /\ pc = "finally"
    /\ stop
    /\ pc' = "exit"

(***************************************************************************)
(* SpecLoop: the driver from its construction to its exit.  The server     *)
(* answers polls with a still frame, a clear or no change, or the request  *)
(* fails; POSTs carry an alert while the push server runs; the serial      *)
(* device comes and goes; a signal or an exception may end the loop at     *)
(* any point.                                                              *)
(***************************************************************************)
LoopTime == 2001
LoopAdmissions == 2

LoopOutcomes ==
    {Fetched(ContentResponse("updated", Still, 1000)),
     Fetched(ContentResponse("clear", None, 1000)),
     Fetched(ContentResponse("no_change", None, 1000)),
     Failed("URLError")}

InitLoop ==
    /\ InitQueue
    /\ InitDriver(PollLimits, "keep_last")
    /\ running = FALSE
    /\ pc = "init"
    /\ serving = FALSE
    /\ stopping = <<>>
    /\ lock = Unlocked
    /\ pending = NoCalls

NextLoop ==
    \/ start
    \/ \E o \in LoopOutcomes : loop_poll(o)
    \/ loop_render
    \/ \E d \in PollWaits : now + d <= LoopTime /\ loop_sleep(d)
    \/ \E r \in PushRequests :
          serving /\ nadmit < LoopAdmissions /\ do_POST(r) /\ UNCHANGED tvars
    \/ \E p \in PortStates : port_changes(p) /\ UNCHANGED tvars
    \/ signal
    \/ interrupt
    \/ finally_stop

SpecLoop == InitLoop /\ [][NextLoop]_vars

(***************************************************************************)
(* C31: inside the loop the driver is running, and a step of the loop in   *)
(* which a write() fails, of a frame or of the blank matrix, leaves it     *)
(* running and takes the main thread to the next step of the loop: from    *)
(* the poll to the rendering, from the rendering to the sleep.             *)
(***************************************************************************)
C31_LoopSurvivesFailedWrite ==
    /\ [](pc \in InLoop => running)
    /\ [][(FailedWrite /\ stopping' = stopping) =>
              /\ running'
              /\ pc \in {"poll", "render"}
              /\ pc' = (IF pc = "poll" THEN "render" ELSE "sleep")]_vars
    /\ [][(pc = "sleep" /\ pc' \in InLoop \ {"sleep"}) =>
              (pc' = "poll" /\ running' /\ now' > now)]_vars

\* writes have failed in two iterations, the later one in the rendering
\* of a frame, and the loop is about to sleep once more
C31_Witness ==
    /\ pc = "sleep"
    /\ running
    /\ ~wrote.ret
    /\ wrote.failures_before >= 1
    /\ last.op = "update"
    /\ last.ret # None
    /\ now > 1000

(***************************************************************************)
(* C32: the stop() that ends a running driver stops the push server,       *)
(* clears the queue, writes the blank matrix and closes the serial         *)
(* connection, in this order, and a stop() of a driver that is not         *)
(* running takes none of these steps.                                      *)
(***************************************************************************)
C32_ShutdownOrder ==
    /\ [][(running /\ ~running') =>
              /\ SelectSeq(stopping', LAMBDA step : step # "queue.clear") =
                     <<"push_server.stop", "_clear_display", "serial.close">>
              /\ ~serving'
              /\ current' = None
              /\ queue' = <<>>
              /\ interrupted' = <<>>
              /\ panel' = blank]_vars
    /\ [][~running => stopping' = stopping]_vars

(***************************************************************************)
(* ContentQueue._lock.  Every public operation of the queue is one         *)
(* "with self._lock:" block: a thread enters it when it acquires the lock  *)
(* and leaves it, the operation done, when it releases the lock.           *)
(***************************************************************************)
\* a lock that every thread can acquire at any time
acquirable_always(l, t) == TRUE

\* RLock.acquire succeeds for a thread when no other thread owns the lock
acquirable(l, t) == l.owner = "none" \/ l.owner = t

acquire(l, t) == [owner |-> t, count |-> l.count + 1]

release(l) == IF l.count <= 1 THEN Unlocked ELSE [l EXCEPT !.count = @ - 1]

\* the fields of the queue; shown, the time current has been on display,
\* is a record the model keeps and no field of the program
QueueState ==
    <<IF current = None THEN None ELSE [current EXCEPT !.shown = 0],
      queue, interrupted>>

\* what a thread inside an operation has found current, queue and
\* interrupted to be when it acquired the lock
Entered(op, arg) == [op |-> op, arg |-> arg, observed |-> QueueState]

\* with self._lock: the thread t acquires the lock for op(arg)
enter(t, op, arg) ==
    /\ pending[t] = None
    /\ acquirable(lock, t)
    /\ lock' = acquire(lock, t)
    /\ pending' = [pending EXCEPT ![t] = Entered(op, arg)]
    /\ UNCHANGED <<qvars, dvars, lvars>>

\* the body of the with block and the release of the lock
leave(t) ==
    /\ pending[t] # None
    /\ CASE pending[t].op = "add_content" -> add_content(pending[t].arg)
         [] pending[t].op = "replace_if_same_id" ->
                replace_if_same_id(pending[t].arg)
         [] pending[t].op = "update" -> update
         [] pending[t].op = "clear" -> clear
    /\ lock' = release(lock)
    /\ pending' = [pending EXCEPT ![t] = None]
    /\ UNCHANGED <<dvars, lvars>>

(***************************************************************************)
(* SpecLock: the push server's thread adds contents while the driver loop  *)
(* updates, replaces, adds and clears, and time passes.                    *)
(***************************************************************************)
LockTime == 2
LockAdmissions == 4

NextLock ==
    \/ \E c \in StackContents :
          nadmit < LockAdmissions /\ enter("push", "add_content", c)
    \/ \E c \in StackContents, op \in {"add_content", "replace_if_same_id"} :
          nadmit < LockAdmissions /\ enter("loop", op, c)
    \/ \E op \in {"update", "clear"} : enter("loop", op, None)
    \/ \E t \in Threads : leave(t)
    \/ now < LockTime /\ Tick /\ UNCHANGED <<dvars, tvars>>

SpecLock == Init /\ [][NextLock]_vars

\* the bounds of the queue, and nothing waits while nothing plays
QueueInvariants ==
    /\ Len(queue) <= MAX_QUEUED_ITEMS
    /\ Len(interrupted) <= MAX_INTERRUPTED_ITEMS
    /\ current = None => (queue = <<>> /\ interrupted = <<>>)

(***************************************************************************)
(* C37: at most one thread is inside an operation of the queue; the        *)
(* operation acts on the queue as the thread found it when it acquired     *)
(* the lock, so the operations take effect one at a time in the order in   *)
(* which they release the lock; and whenever the lock is free the queue    *)
(* is within its bounds and, if nothing is current, empty.                 *)
(***************************************************************************)
C37_OperationsAreAtomic ==
    /\ [](\A t, u \in Threads :
             (pending[t] # None /\ pending[u] # None) => t = u)
    /\ [](lock = Unlocked => QueueInvariants)
    /\ [][\A t \in Threads :
             (pending[t] # None /\ pending'[t] = None) =>
                 pending[t].observed = QueueState]_vars

\* the loop holds the lock for an update, the operation before it was an
\* add_content, and contents wait both in queue and on the stack
C37_Witness ==
    /\ lock.owner = "loop"
    /\ pending["loop"] # None
    /\ pending["loop"].op = "update"
    /\ pending["push"] = None
    /\ last.op = "add_content"
    /\ queue # <<>>
    /\ interrupted # <<>>
    /\ now > 1
====
